---------------------------- MODULE Spec2Model ----------------------------
(***************************************************************************)
(* Model of the candidate-list review application: the tabular parser      *)
(* (services/fileParser.ts), the duplicate grouper (components/Report.tsx) *)
(* and the search filter of the App component.                             *)
(*                                                                         *)
(* A JavaScript string is the sequence of its UTF-16 code units.  A        *)
(* JavaScript object (a table row) is the sequence of its key/value pairs  *)
(* in key order.  A cell value is a tagged record                          *)
(* [t, s, n]: t is the JavaScript type, s the string, n the number (or,    *)
(* for a Date, its time value).  A time value is counted in quarter hours  *)
(* since the Unix epoch: every instant and every time-zone offset of the   *)
(* model is a whole number of quarter hours.                               *)
(***************************************************************************)
EXTENDS Integers, Sequences, FiniteSets, TLC

VARIABLES
    data,                         \* Report props: the rows
    checkedState,                 \* Report props: rowIndex -> union -> boolean
    allUnions,                    \* Report props: the union list
    duplicatedCandidatesByUnion,  \* Report: the memoised grouping
    dupStep,                      \* "input" before the memo is computed, "done" after
    tzOffset,                     \* the machine: local time minus UTC, in quarter hours
    dateHeaders,                  \* processDataForDates: the headers argument
    dateData,                     \* processDataForDates: the data argument
    dateOut,                      \* processDataForDates: the rows returned
    dateAgain,                    \* the rows returned when dateOut is processed again
    dateStep,                     \* "input", then "done", then "again"
    fileName,                     \* parseFile: file.name
    promise,                      \* parseFile: the promise it returns
    received,                     \* parseFile: what the reader or the library handed back
    steps,                        \* parseFile: the processing steps processAndResolve ran
    originalData,                 \* App state: the rows with their original indices
    searchTerm,                   \* App state: deferredSearchTerm
    searchableData,               \* App state: the search index
    filteredData,                 \* App state: the rows shown
    renderedIndex,                \* the searchableData of the render whose effects run
    effects,                      \* the effects of the current commit still to run
    identityRow,                  \* the row given to the two getCandidateIdentifier
    reportIdentifier,             \* what Report's getCandidateIdentifier returned
    tableIdentifier,              \* what DataTable's getCandidateIdentifier returned
    identityHeaders,              \* the header list of the dataset the row is of
    identityStep,                 \* "input", then "report" or "table", then "both"
    view,                         \* App state: 'loading', 'upload', 'data' or 'report'
    appHeaders,                   \* App state: headers
    appCheckedState,              \* App state: checkedState
    appFileName,                  \* App state: fileName
    electionDates,                \* App state
    visibleUnions,                \* App state
    appError,                     \* App state: error
    db,                           \* the object store of the persistence module
    tasks,                        \* the invocations of async functions in flight
    timer,                        \* the timer of the debounce effect and its closure
    appStep,                      \* the last step App took
    latest,                       \* the file of the last handleFileSelect
    overlapped,                   \* it was called while another one was in flight
    edits,                        \* the checkbox, search and settings changes made so far
    faulty                        \* whether requests to the store and reads of files can fail

dupVars == <<data, checkedState, allUnions, duplicatedCandidatesByUnion, dupStep>>

dateVars == <<dateHeaders, dateData, dateOut, dateAgain, dateStep>>

parseVars == <<fileName, promise, received, steps>>

searchVars == <<originalData, searchTerm, searchableData, filteredData, renderedIndex, effects>>

identityVars == <<identityRow, identityHeaders, reportIdentifier, tableIdentifier, identityStep>>

appVars ==
    <<view, appHeaders, appCheckedState, appFileName, electionDates, visibleUnions, appError,
      db, tasks, timer, appStep, latest, overlapped, edits, faulty>>

vars == <<dupVars, tzOffset, dateVars, parseVars, searchVars, identityVars, appVars>>

(***************************************************************************)
(* Strings.  A JavaScript string is the sequence of its UTF-16 code units; *)
(* S("text") is the string of a literal.                                   *)
(***************************************************************************)
Char(s, i) == SubSeq(s, i, i)

Range(f) == {f[i] : i \in DOMAIN f}

\* The printable ASCII characters in code-unit order: U+0020 to U+005F, and
\* U+0061 to U+007E (a TLA+ string literal cannot hold U+0060, the grave accent).
AsciiLow == " !\"#$%&'()*+,-./0123456789:;<=>?@ABCDEFGHIJKLMNOPQRSTUVWXYZ[\\]^_"

AsciiHigh == "abcdefghijklmnopqrstuvwxyz{|}~"

\* The Latin-1 letters the literals use, with their code units.
Latin1 ==
    << <<"Á", 193>>, <<"É", 201>>, <<"Í", 205>>, <<"Ñ", 209>>, <<"Ó", 211>>,
       <<"Ú", 218>>, <<"Ü", 220>>, <<"á", 225>>, <<"é", 233>>, <<"í", 237>>,
       <<"ñ", 241>>, <<"ó", 243>>, <<"ú", 250>>, <<"ü", 252>> >>

CharSet ==
    {Char(AsciiLow, i) : i \in 1..Len(AsciiLow)}
        \cup {Char(AsciiHigh, i) : i \in 1..Len(AsciiHigh)}
        \cup {Latin1[i][1] : i \in 1..Len(Latin1)}

\* charCodeAt: the UTF-16 code unit of a character of a literal.
CodeUnit ==
    [c \in CharSet |->
        IF \E i \in 1..Len(AsciiLow) : Char(AsciiLow, i) = c
        THEN 31 + (CHOOSE i \in 1..Len(AsciiLow) : Char(AsciiLow, i) = c)
        ELSE IF \E i \in 1..Len(AsciiHigh) : Char(AsciiHigh, i) = c
        THEN 96 + (CHOOSE i \in 1..Len(AsciiHigh) : Char(AsciiHigh, i) = c)
        ELSE Latin1[CHOOSE i \in 1..Len(Latin1) : Latin1[i][1] = c][2]]

S(literal) == [i \in 1..Len(literal) |-> CodeUnit[Char(literal, i)]]

\* String.prototype.toLowerCase on one code unit of Basic Latin or Latin-1.
LowerUnit(u) ==
    IF (u >= 65 /\ u <= 90) \/ (u >= 192 /\ u <= 222 /\ u # 215) THEN u + 32 ELSE u

toLowerCase(s) == [i \in 1..Len(s) |-> LowerUnit(s[i])]

\* String.prototype.includes.
includes(s, t) ==
    \E i \in 1..(Len(s) - Len(t) + 1) : SubSeq(s, i, i + Len(t) - 1) = t

\* The white space and line terminators of Basic Latin and Latin-1.
IsSpace(u) == u \in {9, 10, 11, 12, 13, 32, 160}

RECURSIVE trimStart(_)
trimStart(s) ==
    IF Len(s) > 0 /\ IsSpace(s[1]) THEN trimStart(Tail(s)) ELSE s

RECURSIVE trimEnd(_)
trimEnd(s) ==
    IF Len(s) > 0 /\ IsSpace(s[Len(s)]) THEN trimEnd(SubSeq(s, 1, Len(s) - 1)) ELSE s

\* String.prototype.trim.
trim(s) == trimEnd(trimStart(s))

\* Array.prototype.join over an array of strings.
RECURSIVE join(_, _)
join(parts, sep) ==
    IF Len(parts) = 0 THEN <<>>
    ELSE IF Len(parts) = 1 THEN parts[1]
    ELSE parts[1] \o sep \o join(Tail(parts), sep)

\* The comparison of the default Array.prototype.sort: by UTF-16 code units.
RECURSIVE CodeUnitLess(_, _)
CodeUnitLess(a, b) ==
    IF Len(b) = 0 THEN FALSE
    ELSE IF Len(a) = 0 THEN TRUE
    ELSE IF a[1] = b[1] THEN CodeUnitLess(Tail(a), Tail(b))
    ELSE a[1] < b[1]

\* The place of seq[i] after the default sort, which is stable: after the strings
\* less than it, and after the earlier strings equal to it.
SortedPlace(seq, i) ==
    1 + Cardinality({j \in 1..Len(seq) :
                        \/ CodeUnitLess(seq[j], seq[i])
                        \/ (j < i /\ ~CodeUnitLess(seq[i], seq[j]))})

\* Array.prototype.sort() with no comparator, on an array of strings.
sort(seq) ==
    [k \in 1..Len(seq) |-> seq[CHOOSE i \in 1..Len(seq) : SortedPlace(seq, i) = k]]

\* Array.prototype.filter, the test having kept the indices of the set kept:
\* the elements of seq at those indices, in the order of seq.
Pick(seq, kept) ==
    CHOOSE picked \in
        {[k \in 1..Cardinality(indices) |->
             seq[CHOOSE i \in indices : Cardinality({j \in indices : j <= i}) = k]] :
         indices \in {kept}} : TRUE

(***************************************************************************)
(* Cell values and rows (types.ts: TableRow = Record<string, any>).        *)
(***************************************************************************)
Str(x) == [t |-> "string", s |-> x, n |-> 0]
Num(x) == [t |-> "number", s |-> <<>>, n |-> x]
DateOf(x) == [t |-> "date", s |-> <<>>, n |-> x]
Bool(x) == [t |-> "boolean", s |-> <<>>, n |-> IF x THEN 1 ELSE 0]
Null == [t |-> "null", s |-> <<>>, n |-> 0]
Undefined == [t |-> "undefined", s |-> <<>>, n |-> 0]

Cell(key, value) == [k |-> key, v |-> value]

\* Object.keys(row) and Object.values(row).
keysOf(row) == [i \in 1..Len(row) |-> row[i].k]
valuesOf(row) == [i \in 1..Len(row) |-> row[i].v]

\* row[key].
Get(row, key) ==
    IF \E i \in 1..Len(row) : row[i].k = key
    THEN row[CHOOSE i \in 1..Len(row) : row[i].k = key].v
    ELSE Undefined

\* The decimal digits of a natural number.
RECURSIVE NatToString(_)
NatToString(x) ==
    IF x < 10 THEN <<48 + x>>
    ELSE Append(NatToString(x \div 10), 48 + (x % 10))

\* String(value), for the value types the rows of the model hold.
String(value) ==
    CASE value.t = "string" -> value.s
      [] value.t = "number" ->
            IF value.n < 0 THEN <<45>> \o NatToString(0 - value.n) ELSE NatToString(value.n)
      [] value.t = "boolean" -> IF value.n = 1 THEN S("true") ELSE S("false")
      [] value.t = "null" -> S("null")
      [] value.t = "undefined" -> S("undefined")

\* value ?? fallback.
Nullish(value) == value.t \in {"null", "undefined"}

(***************************************************************************)
(* components/Report.tsx: the identity of a row.                           *)
(***************************************************************************)
\* /pattern/i.test(key), for a pattern that is an alternation of literals.
TestAny(key, literals) == \E lit \in literals : includes(toLowerCase(key), lit)

SurnamePattern == {S("apellidos")}
NamePattern == {S("nombre")}
\* A bug the broad pattern could have: the candidate columns are left out.
NamePatternWithoutCandidate == {S("nombre"), S("apellidos"), S("name")}
AllNamePattern == {S("nombre"), S("apellidos"), S("name"), S("candidato")}
DniPattern == {S("dni"), S("nif"), S("id")}

IsSurnameKey(key) == TestAny(key, SurnamePattern)
IsNameKey(key) == TestAny(key, NamePattern) /\ ~TestAny(key, SurnamePattern)
IsAllNameKey(key) == TestAny(key, AllNamePattern)
IsDniKey(key) == TestAny(key, DniPattern)

\* keys.map(k => String(row[k] ?? '')).
ValuesOrEmpty(row, keys) ==
    [i \in 1..Len(keys) |->
        IF Nullish(Get(row, keys[i])) THEN <<>> ELSE String(Get(row, keys[i]))]

\* A bug the composition could have: the given names before the surnames.
givenNamesFirst(row) ==
    LET keys == keysOf(row)
        surnameKeys == sort(Pick(keys, {i \in 1..Len(keys) : IsSurnameKey(keys[i])}))
        nameKeys == sort(Pick(keys, {i \in 1..Len(keys) : IsNameKey(keys[i])}))
        fullNameParts == ValuesOrEmpty(row, nameKeys) \o ValuesOrEmpty(row, surnameKeys)
        allNameKeys == sort(Pick(keys, {i \in 1..Len(keys) : IsAllNameKey(keys[i])}))
        dniKeys == Pick(keys, {i \in 1..Len(keys) : IsDniKey(keys[i])})
    IN  IF Len(fullNameParts) > 0 THEN trim(join(fullNameParts, <<32>>))
        ELSE IF Len(allNameKeys) > 0 THEN trim(join(ValuesOrEmpty(row, allNameKeys), <<32>>))
        ELSE IF Len(dniKeys) > 0 THEN String(Get(row, dniKeys[1]))
        ELSE IF Len(row) = 0 \/ Nullish(row[1].v) THEN S("Candidato Desconocido")
        ELSE String(row[1].v)

getCandidateIdentifier(row) ==
    LET keys == keysOf(row)
        surnameKeys == sort(Pick(keys, {i \in 1..Len(keys) : IsSurnameKey(keys[i])}))
        nameKeys == sort(Pick(keys, {i \in 1..Len(keys) : IsNameKey(keys[i])}))
        fullNameParts == ValuesOrEmpty(row, surnameKeys) \o ValuesOrEmpty(row, nameKeys)
        allNameKeys == sort(Pick(keys, {i \in 1..Len(keys) : IsAllNameKey(keys[i])}))
        dniKeys == Pick(keys, {i \in 1..Len(keys) : IsDniKey(keys[i])})
    IN  IF Len(fullNameParts) > 0 THEN trim(join(fullNameParts, <<32>>))
        ELSE IF Len(allNameKeys) > 0 THEN trim(join(ValuesOrEmpty(row, allNameKeys), <<32>>))
        ELSE IF Len(dniKeys) > 0 THEN String(Get(row, dniKeys[1]))
        ELSE IF Len(row) = 0 \/ Nullish(row[1].v) THEN S("Candidato Desconocido")
        ELSE String(row[1].v)

(***************************************************************************)
(* String.prototype.localeCompare, restricted to the characters in use:    *)
(* the root collation compares the base letters without case first, then   *)
(* the accents, then the case (lower case first).                          *)
(***************************************************************************)
\* The base letter of the canonical decomposition (NFD) of a Latin-1 letter, and
\* its combining mark; a code unit that does not decompose has mark 0.
BaseUnit(u) ==
    LET l == IF u >= 224 THEN u - 32 ELSE u
        b == CASE l >= 192 /\ l <= 197 -> 65
               [] l = 199 -> 67
               [] l >= 200 /\ l <= 203 -> 69
               [] l >= 204 /\ l <= 207 -> 73
               [] l = 209 -> 78
               [] l >= 210 /\ l <= 214 -> 79
               [] l >= 217 /\ l <= 220 -> 85
               [] l = 221 -> 89
               [] OTHER -> 0
    IN  IF u = 255 THEN 121
        ELSE IF u < 192 \/ u > 255 \/ b = 0 THEN u
        ELSE IF u >= 224 THEN b + 32 ELSE b

MarkUnit(u) ==
    LET l == IF u >= 224 /\ u <= 255 THEN u - 32 ELSE u
    IN  IF BaseUnit(u) = u THEN 0
        ELSE IF u = 255 THEN 776
        ELSE CASE l \in {192, 200, 204, 210, 217} -> 768
               [] l \in {193, 201, 205, 211, 218, 221} -> 769
               [] l \in {194, 202, 206, 212, 219} -> 770
               [] l \in {195, 209, 213} -> 771
               [] l \in {196, 203, 207, 214, 220} -> 776
               [] l = 197 -> 778
               [] l = 199 -> 807

PrimaryKey(s) == [i \in 1..Len(s) |-> LowerUnit(BaseUnit(s[i]))]

localeCompareLess(a, b) ==
    LET pa == PrimaryKey(a)
        pb == PrimaryKey(b)
        accentDiff == {i \in 1..Len(a) : MarkUnit(a[i]) # MarkUnit(b[i])}
        caseDiff == {i \in 1..Len(a) : a[i] # b[i]}
        First(set) == CHOOSE i \in set : \A j \in set : i <= j
    IN  IF pa # pb THEN CodeUnitLess(pa, pb)
        ELSE IF accentDiff # {}
        THEN MarkUnit(a[First(accentDiff)]) < MarkUnit(b[First(accentDiff)])
        ELSE IF caseDiff # {}
        THEN LowerUnit(a[First(caseDiff)]) = a[First(caseDiff)]
        ELSE FALSE

(***************************************************************************)
(* components/Report.tsx: duplicatedCandidatesByUnion.                     *)
(***************************************************************************)
\* checkedState[rowIndex]?.[union], as a condition.
IsChecked(cs, rowIndex, union) ==
    /\ rowIndex \in DOMAIN cs
    /\ union \in DOMAIN cs[rowIndex]
    /\ cs[rowIndex][union]

\* A bug the filter could have: the application's own union list is filtered, not
\* the list given.
checkedUnionsOfAppList(cs, unions, rowIndex) ==
    Pick(<<S("CCOO"), S("UGT"), S("SB")>>,
         {i \in 1..3 : IsChecked(cs, rowIndex, <<S("CCOO"), S("UGT"), S("SB")>>[i])})

\* allUnions.filter(union => checkedState[rowIndex]?.[union]).
checkedUnionsForRow(cs, unions, rowIndex) ==
    Pick(unions, {i \in 1..Len(unions) : IsChecked(cs, rowIndex, unions[i])})

\* Set.prototype.add on a set kept in insertion order.
SetAdd(set, x) == IF x \in Range(set) THEN set ELSE Append(set, x)

RECURSIVE SetAddAll(_, _)
SetAddAll(set, xs) ==
    IF Len(xs) = 0 THEN set ELSE SetAddAll(SetAdd(set, Head(xs)), Tail(xs))

\* A bug the accumulation could have: the unions of the last row replace the
\* unions collected so far.
addUnionsReplacing(entry, checked) == [entry EXCEPT !.unions = SetAddAll(<<>>, checked)]

\* checkedUnionsForRow.forEach(union => candidatesMap.get(identifier)!.unions.add(union)).
addUnions(entry, checked) == [entry EXCEPT !.unions = SetAddAll(entry.unions, checked)]

\* One iteration of data.forEach: the map after the row at rowIndex (0-based).
candidatesMapStep(map, row, rowIndex, cs, unions) ==
    LET checked == checkedUnionsForRow(cs, unions, rowIndex)
        identifier == getCandidateIdentifier(row)
        has == \E j \in 1..Len(map) : map[j].identifier = identifier
        withKey == IF has THEN map
                   ELSE Append(map, [identifier |-> identifier, unions |-> <<>>, row |-> row])
    IN  IF Len(checked) > 0
        THEN [j \in 1..Len(withKey) |->
                IF withKey[j].identifier = identifier
                THEN addUnions(withKey[j], checked) ELSE withKey[j]]
        ELSE map

\* Step 1: the Map from identifier to its unions and first row, in insertion order.
RECURSIVE candidatesMapAfter(_, _, _, _)
candidatesMapAfter(rows, cs, unions, count) ==
    IF count = 0 THEN <<>>
    ELSE candidatesMapStep(candidatesMapAfter(rows, cs, unions, count - 1),
                           rows[count], count - 1, cs, unions)

candidatesMap(rows, cs, unions) == candidatesMapAfter(rows, cs, unions, Len(rows))

\* A bug the threshold could have: one union is enough.
isDuplicateAtLeastOne(candidate) == Len(candidate.unions) > 0

\* candidate.unions.size > 1.
isDuplicate(candidate) == Len(candidate.unions) > 1

\* A bug the copy could have: the unions are left in insertion order.
asDuplicateUnsorted(candidate) ==
    [identifier |-> getCandidateIdentifier(candidate.row),
     unions |-> candidate.unions,
     row |-> candidate.row]

\* Step 2: the candidates in more than one union.
asDuplicate(candidate) ==
    [identifier |-> getCandidateIdentifier(candidate.row),
     unions |-> sort(candidate.unions),
     row |-> candidate.row]

actualDuplicates(rows, cs, unions) ==
    LET map == candidatesMap(rows, cs, unions)
        dups == Pick(map, {i \in 1..Len(map) : isDuplicate(map[i])})
    IN  [j \in 1..Len(dups) |-> asDuplicate(dups[j])]

\* A bug the filter could have: only the unions after this one are kept.
otherUnionsAfter(dup, union) ==
    Pick(dup.unions, {i \in 1..Len(dup.unions) : CodeUnitLess(union, dup.unions[i])})

\* dup.unions.filter(u => u !== union).
otherUnions(dup, union) ==
    Pick(dup.unions, {i \in 1..Len(dup.unions) : dup.unions[i] # union})

candidatesInThisUnion(dups, union) ==
    LET mine == Pick(dups, {i \in 1..Len(dups) : union \in Range(dups[i].unions)})
    IN  [j \in 1..Len(mine) |->
            [identifier |-> mine[j].identifier,
             otherUnions |-> otherUnions(mine[j], union),
             row |-> mine[j].row]]

\* groupedByUnion[union] = list: a new key goes last, an existing key keeps its place.
SetKey(grouped, union, list) ==
    IF \E j \in 1..Len(grouped) : grouped[j].union = union
    THEN [j \in 1..Len(grouped) |->
            IF grouped[j].union = union THEN [union |-> union, list |-> list] ELSE grouped[j]]
    ELSE Append(grouped, [union |-> union, list |-> list])

\* The place of list[i] after list.sort((a, b) => a.identifier.localeCompare(b.identifier)),
\* the sort being stable.
PlaceByIdentifier(list, i) ==
    1 + Cardinality({j \in 1..Len(list) :
                        \/ localeCompareLess(list[j].identifier, list[i].identifier)
                        \/ (j < i /\ ~localeCompareLess(list[i].identifier, list[j].identifier))})

\* A bug the grouping could have: the list is left in insertion order.
insertionOrder(list) == list

sortByIdentifier(list) ==
    [k \in 1..Len(list) |-> list[CHOOSE i \in 1..Len(list) : PlaceByIdentifier(list, i) = k]]

\* A bug the grouping could have: a union with no duplicate gets an empty list.
groupedStepAlways(grouped, dups, union) ==
    SetKey(grouped, union, sortByIdentifier(candidatesInThisUnion(dups, union)))

\* One iteration of allUnions.forEach.
groupedStep(grouped, dups, union) ==
    IF Len(candidatesInThisUnion(dups, union)) > 0
    THEN SetKey(grouped, union, sortByIdentifier(candidatesInThisUnion(dups, union)))
    ELSE grouped

RECURSIVE groupedAfter(_, _, _)
groupedAfter(dups, unions, count) ==
    IF count = 0 THEN <<>>
    ELSE groupedStep(groupedAfter(dups, unions, count - 1), dups, unions[count])

\* Step 3: the duplicates under each union of the list, in the order of the list.
groupedByUnion(rows, cs, unions) ==
    groupedAfter(actualDuplicates(rows, cs, unions), unions, Len(unions))

hasDuplicates(grouped) == Len(grouped) > 0

(***************************************************************************)
(* The Date object: the calendar of ECMAScript, proleptic Gregorian.       *)
(***************************************************************************)
TicksPerDay == 24 * 4

\* Days from 1970-01-01 to the day year-month-day (month 1..12).
DaysFromCivil(year, month, day) ==
    LET y == IF month <= 2 THEN year - 1 ELSE year
        era == y \div 400
        yoe == y - era * 400
        mp == (month + 9) % 12
        doy == (153 * mp + 2) \div 5 + day - 1
        doe == yoe * 365 + yoe \div 4 - yoe \div 100 + doy
    IN  era * 146097 + doe - 719468

\* The year, month (1..12) and day of the day that lies days after 1970-01-01.
CivilFromDays(days) ==
    LET z == days + 719468
        era == z \div 146097
        doe == z - era * 146097
        yoe == (doe - doe \div 1460 + doe \div 36524 - doe \div 146096) \div 365
        doy == doe - (365 * yoe + yoe \div 4 - yoe \div 100)
        mp == (5 * doy + 2) \div 153
        m == IF mp < 10 THEN mp + 3 ELSE mp - 9
    IN  [year |-> yoe + era * 400 + (IF m <= 2 THEN 1 ELSE 0),
         month |-> m,
         day |-> doy - (153 * mp + 2) \div 5 + 1]

\* A Date: valid is false for an Invalid Date (time value NaN).
ValidDate(time) == [valid |-> TRUE, time |-> time]
InvalidDate == [valid |-> FALSE, time |-> 0]

\* The local calendar fields of a Date: getFullYear, getMonth() + 1, getDate.
LocalFields(date, tz) == CivilFromDays((date.time + tz) \div TicksPerDay)

\* new Date(year, monthIndex, day): local midnight of the day, a month index or a
\* day outside its range carrying over (both arguments are integers, year >= 100).
NewDateLocal(year, monthIndex, day, tz) ==
    LET months == year * 12 + monthIndex
        first == DaysFromCivil(months \div 12, (months % 12) + 1, 1)
    IN  ValidDate((first + day - 1) * TicksPerDay - tz)

IsDigit(u) == u >= 48 /\ u <= 57

AllDigits(s) == \A i \in 1..Len(s) : IsDigit(s[i])

\* parseInt(text, 10) on a string of decimal digits.
RECURSIVE parseInt(_)
parseInt(s) ==
    IF Len(s) = 0 THEN 0 ELSE parseInt(SubSeq(s, 1, Len(s) - 1)) * 10 + (s[Len(s)] - 48)

DaysInMonth(year, month) ==
    DaysFromCivil(IF month = 12 THEN year + 1 ELSE year, (month % 12) + 1, 1)
        - DaysFromCivil(year, month, 1)

\* new Date(text), for the date-only form YYYY-MM-DD of the ECMAScript date-time
\* format, read as UTC midnight; any other text of the model is not a date in any
\* engine, and gives an Invalid Date.
NewDateParse(s) ==
    IF /\ Len(s) = 10
       /\ s[5] = 45 /\ s[8] = 45
       /\ AllDigits(SubSeq(s, 1, 4)) /\ AllDigits(SubSeq(s, 6, 7)) /\ AllDigits(SubSeq(s, 9, 10))
       /\ parseInt(SubSeq(s, 6, 7)) \in 1..12
       /\ parseInt(SubSeq(s, 9, 10)) \in
             1..DaysInMonth(parseInt(SubSeq(s, 1, 4)), parseInt(SubSeq(s, 6, 7)))
    THEN ValidDate(DaysFromCivil(parseInt(SubSeq(s, 1, 4)), parseInt(SubSeq(s, 6, 7)),
                                 parseInt(SubSeq(s, 9, 10))) * TicksPerDay)
    ELSE InvalidDate

(***************************************************************************)
(* services/fileParser.ts: formatDate and processDataForDates.             *)
(***************************************************************************)
\* String(x).padStart(2, '0') for a natural number x.
padStart2(x) == IF x < 10 THEN <<48>> \o NatToString(x) ELSE NatToString(x)

formatDate(date, tz) ==
    IF ~date.valid THEN <<>>
    ELSE padStart2(LocalFields(date, tz).day) \o <<45>>
            \o padStart2(LocalFields(date, tz).month) \o <<45>>
            \o NatToString(LocalFields(date, tz).year)

IsDateHeader(h) ==
    includes(toLowerCase(h), S("fecha")) \/ includes(toLowerCase(h), S("antigüedad"))

\* A bug the filter could have: every column is taken for a date column.
everyHeader(headers) == headers

\* headers.filter(h => ...): the headers that probably hold dates.
dateHeadersOf(headers) == Pick(headers, {i \in 1..Len(headers) : IsDateHeader(headers[i])})

IsSeparator(u) == u = 47 \/ u = 45

\* The places <<p, q>> of the two separators when the text matches
\* /^(\d{1,2})[/-](\d{1,2})[/-](\d{2,4})$/.
MatchPlaces(s) ==
    {pq \in (2..3) \X (4..6) :
        /\ pq[2] - pq[1] \in 2..3
        /\ Len(s) - pq[2] \in 2..4
        /\ IsSeparator(s[pq[1]]) /\ IsSeparator(s[pq[2]])
        /\ AllDigits(SubSeq(s, 1, pq[1] - 1))
        /\ AllDigits(SubSeq(s, pq[1] + 1, pq[2] - 1))
        /\ AllDigits(SubSeq(s, pq[2] + 1, Len(s)))}

\* originalValue.match(...): the three groups, or none.
matchParts(s) ==
    IF MatchPlaces(s) = {} THEN <<>>
    ELSE LET pq == CHOOSE x \in MatchPlaces(s) : TRUE
         IN  <<SubSeq(s, 1, pq[1] - 1), SubSeq(s, pq[1] + 1, pq[2] - 1),
               SubSeq(s, pq[2] + 1, Len(s))>>

\* A bug the parse could have: the month is not made 0-indexed.
dateFromPartsMonthNotShifted(parts, tz) ==
    LET year == parseInt(parts[3])
    IN  NewDateLocal(IF year < 100 THEN year + 2000 ELSE year,
                     parseInt(parts[2]), parseInt(parts[1]), tz)

\* The Date of a matched day/month/year text.
dateFromParts(parts, tz) ==
    LET year == parseInt(parts[3])
    IN  NewDateLocal(IF year < 100 THEN year + 2000 ELSE year,
                     parseInt(parts[2]) - 1, parseInt(parts[1]), tz)

\* The Date the rules give for a cell value; none is an Invalid Date here, the
\* guard below treating a null date and an invalid one alike.
dateOfValue(value, tz) ==
    CASE value.t = "date" -> ValidDate(value.n)
      [] value.t = "number" /\ value.n > 25569 ->
            ValidDate((value.n - 25569) * TicksPerDay)
      [] value.t = "string" ->
            IF matchParts(value.s) # <<>> THEN dateFromParts(matchParts(value.s), tz)
            ELSE NewDateParse(value.s)
      [] OTHER -> InvalidDate

\* A bug the guard could have: every valid date is accepted.
acceptsValidDate(date, tz) == date.valid

\* date && !isNaN(date.getTime()) && date.getFullYear() > 1000.
acceptsDate(date, tz) == date.valid /\ LocalFields(date, tz).year > 1000

\* The value a date column holds after the row is processed.
normalizedValue(value, tz) ==
    IF acceptsDate(dateOfValue(value, tz), tz)
    THEN Str(formatDate(dateOfValue(value, tz), tz))
    ELSE value

\* newRow[header] = ...: the column is set, or added last when the row lacks it.
SetCell(row, key, value) ==
    IF \E i \in 1..Len(row) : row[i].k = key
    THEN [i \in 1..Len(row) |-> IF row[i].k = key THEN Cell(key, value) ELSE row[i]]
    ELSE Append(row, Cell(key, value))

\* The body of data.map: the row after the date columns hs[1..count] are processed.
RECURSIVE processRow(_, _, _, _)
processRow(row, hs, count, tz) ==
    IF count = 0 THEN row
    ELSE LET before == processRow(row, hs, count - 1, tz)
             originalValue == Get(before, hs[count])
         IN  IF acceptsDate(dateOfValue(originalValue, tz), tz)
             THEN SetCell(before, hs[count], normalizedValue(originalValue, tz))
             ELSE before

processDataForDates(rows, headers, tz) ==
    IF Len(dateHeadersOf(headers)) = 0 THEN rows
    ELSE [i \in 1..Len(rows) |->
            processRow(rows[i], dateHeadersOf(headers), Len(dateHeadersOf(headers)), tz)]

(***************************************************************************)
(* The inputs of the duplicate grouping.                                   *)
(***************************************************************************)
MaxRows == 2

CCOO == S("CCOO")
UGT == S("UGT")
SB == S("SB")

UnionNames == {CCOO, UGT, SB}

\* The union lists a caller passes: the head of the application's list, and a
\* shorter list in another order.
UnionLists == {<<CCOO, UGT, SB>>, <<UGT, CCOO>>}

\* Two rows of different shape with the same identity, and two other candidates.
RowPool ==
    { <<Cell(S("Apellidos"), Str(S("Pérez"))), Cell(S("Nombre"), Str(S("Juan")))>>,
      <<Cell(S("Nombre"), Str(S("Pérez Juan"))), Cell(S("DNI"), Str(S("1")))>>,
      <<Cell(S("Nombre"), Str(S("Ana"))), Cell(S("Apellidos"), Str(S("Álvarez")))>>,
      <<Cell(S("DNI"), Num(123))>> }

\* The selection state in which row i (0-based) has exactly the unions of marks[i]
\* set to true: a row with no mark has no entry.
SelectionOf(marks) ==
    [i \in {j \in DOMAIN marks : marks[j] # {}} |-> [u \in UnionNames |-> u \in marks[i]]]

DupInit ==
    /\ \E n \in 1..MaxRows :
          /\ data \in [1..n -> RowPool]
          /\ \E marks \in [0..(n - 1) -> SUBSET UnionNames] : checkedState = SelectionOf(marks)
    /\ allUnions \in UnionLists
    /\ duplicatedCandidatesByUnion = <<>>
    /\ dupStep = "input"

\* The Report renders: the memo is computed from its three inputs.
ComputeDuplicates ==
    /\ dupStep = "input"
    /\ duplicatedCandidatesByUnion' = groupedByUnion(data, checkedState, allUnions)
    /\ dupStep' = "done"
    /\ UNCHANGED <<data, checkedState, allUnions>>

DupIdle ==
    /\ data = <<>>
    /\ checkedState = <<>>
    /\ allUnions = <<>>
    /\ duplicatedCandidatesByUnion = <<>>
    /\ dupStep = "idle"

(***************************************************************************)
(* Properties of the duplicate grouping.                                   *)
(***************************************************************************)
\* The pairs <<union, entry>> of the result: entry is listed under union.
Listed ==
    UNION {{<<duplicatedCandidatesByUnion[g].union, x>> :
                x \in Range(duplicatedCandidatesByUnion[g].list)} :
            g \in 1..Len(duplicatedCandidatesByUnion)}

\* The identity of each row, and the identities of the rows.
IdentityOfRow == [i \in 1..Len(data) |-> getCandidateIdentifier(data[i])]

Identities == Range(IdentityOfRow)

\* The unions of the list under which some row of identity x is checked, ids
\* being the identity of each row.
AccumulatedOver(ids, x) ==
    {u \in Range(allUnions) :
        \E i \in 1..Len(data) : ids[i] = x /\ IsChecked(checkedState, i - 1, u)}

AccumulatedUnions(x) == AccumulatedOver(IdentityOfRow, x)

\* C1: if identity X is listed under union U with V among its other unions,
\* then X is listed under V with U among its other unions.
C1_DuplicateSymmetry ==
    dupStep = "done" =>
        \A p \in Listed :
            \A v \in Range(p[2].otherUnions) :
                \E q \in Listed :
                    /\ q[1] = v
                    /\ q[2].identifier = p[2].identifier
                    /\ p[1] \in Range(q[2].otherUnions)

C1_Witness ==
    /\ dupStep = "done"
    /\ \E p, q \in Listed :
          /\ p[1] = CCOO /\ q[1] = UGT
          /\ p[2].identifier = S("Pérez Juan") /\ q[2].identifier = S("Pérez Juan")
          /\ p[2].otherUnions = <<UGT>> /\ q[2].otherUnions = <<CCOO>>

\* C2: an identity whose rows are checked, together, under at most one union of
\* the list is listed under no union; only identities of the rows are listed.
C2_NoFalseDuplicate ==
    dupStep = "done" =>
        LET ids == IdentityOfRow
        IN  /\ \A x \in Range(ids) :
                  Cardinality(AccumulatedOver(ids, x)) <= 1 =>
                      ~\E p \in Listed : p[2].identifier = x
            /\ \A p \in Listed : p[2].identifier \in Range(ids)

C2_Witness ==
    /\ dupStep = "done"
    /\ Listed # {}
    /\ \E x \in Identities :
          /\ Cardinality(AccumulatedUnions(x)) = 1
          /\ ~\E p \in Listed : p[2].identifier = x

\* C3: the unions of an identity accumulate over all its rows, and an identity
\* with two or more accumulated unions is listed under each of them, the other
\* unions of the entry being the rest of the accumulated set.
C3_AccumulatedCompleteness ==
    dupStep = "done" =>
        LET ids == IdentityOfRow
        IN  \A x \in Range(ids) :
                LET acc == AccumulatedOver(ids, x)
                IN  Cardinality(acc) >= 2 =>
                        \A u \in acc :
                            \E p \in Listed :
                                /\ p[1] = u
                                /\ p[2].identifier = x
                                /\ Range(p[2].otherUnions) = acc \ {u}

\* Two different rows of one identity, one checked only under CCOO and the other
\* only under UGT, give a duplicate under both.
C3_Witness ==
    /\ dupStep = "done"
    /\ Len(data) >= 2
    /\ data[1] # data[2]
    /\ getCandidateIdentifier(data[1]) = getCandidateIdentifier(data[2])
    /\ 0 \in DOMAIN checkedState /\ 1 \in DOMAIN checkedState
    /\ {u \in UnionNames : checkedState[0][u]} = {CCOO}
    /\ {u \in UnionNames : checkedState[1][u]} = {UGT}
    /\ \E p, q \in Listed :
          /\ p[1] = CCOO /\ q[1] = UGT
          /\ p[2].identifier = getCandidateIdentifier(data[1])
          /\ q[2].identifier = getCandidateIdentifier(data[1])

\* Lexicographic order of strings by code units: a is before b.
Precedes(a, b) ==
    \E k \in 1..Len(b) :
        /\ k <= Len(a) + 1
        /\ \A j \in 1..(k - 1) : a[j] = b[j]
        /\ (k = Len(a) + 1 \/ a[k] < b[k])

\* C16: for every entry listed under a union U, otherUnions is the accumulated
\* union set of its identity minus U, is not empty, does not contain U, and is
\* in ascending lexicographic order.
C16_OtherUnionsSorted ==
    dupStep = "done" =>
        \A p \in Listed :
            /\ Range(p[2].otherUnions) = AccumulatedUnions(p[2].identifier) \ {p[1]}
            /\ Len(p[2].otherUnions) > 0
            /\ p[1] \notin Range(p[2].otherUnions)
            /\ \A i \in 1..(Len(p[2].otherUnions) - 1) :
                  Precedes(p[2].otherUnions[i], p[2].otherUnions[i + 1])

\* An identity checked under CCOO, UGT and SB, in that order, is listed under
\* CCOO with the other unions SB, UGT.
C16_Witness ==
    /\ dupStep = "done"
    /\ allUnions = <<CCOO, UGT, SB>>
    /\ \E p \in Listed : p[1] = CCOO /\ p[2].otherUnions = <<SB, UGT>>

\* The unions that are keys of the result, in the order of the keys, and the
\* identities listed under each.
ResultKeys == [g \in 1..Len(duplicatedCandidatesByUnion) |-> duplicatedCandidatesByUnion[g].union]

IdentifiersOf(grouped) ==
    [g \in 1..Len(grouped) |->
        [union |-> grouped[g].union,
         identifiers |-> [i \in 1..Len(grouped[g].list) |-> grouped[g].list[i].identifier]]]

\* The keys are in the order of the union list.
KeysInListOrder ==
    \A g, h \in 1..Len(ResultKeys) :
        g < h => \E i, j \in 1..Len(allUnions) :
                    i < j /\ allUnions[i] = ResultKeys[g] /\ allUnions[j] = ResultKeys[h]

\* The rows in the opposite order, each with its own marks.
ReversedData == [i \in 1..Len(data) |-> data[Len(data) + 1 - i]]

ReversedChecked ==
    [i \in {Len(data) - 1 - j : j \in DOMAIN checkedState} |-> checkedState[Len(data) - 1 - i]]

SameForReversedRows ==
    IdentifiersOf(groupedByUnion(ReversedData, ReversedChecked, allUnions))
        = IdentifiersOf(duplicatedCandidatesByUnion)

\* C17: the unions are keys of the result in the order of the union list, and
\* the entries of each union are in ascending lexicographic order of their
\* identity strings, whatever the order of the rows.
C17_LexicographicOrder ==
    dupStep = "done" =>
        /\ KeysInListOrder
        /\ \A g \in 1..Len(duplicatedCandidatesByUnion) :
              \A i \in 1..(Len(duplicatedCandidatesByUnion[g].list) - 1) :
                  Precedes(duplicatedCandidatesByUnion[g].list[i].identifier,
                           duplicatedCandidatesByUnion[g].list[i + 1].identifier)
        /\ SameForReversedRows

\* C17, amended: the unions are keys of the result in the order of the union
\* list, and the entries of each union are in ascending order of their identity
\* under localeCompare, whatever the order of the rows.
C17_CollationOrder ==
    dupStep = "done" =>
        /\ KeysInListOrder
        /\ \A g \in 1..Len(duplicatedCandidatesByUnion) :
              \A i \in 1..(Len(duplicatedCandidatesByUnion[g].list) - 1) :
                  localeCompareLess(duplicatedCandidatesByUnion[g].list[i].identifier,
                                    duplicatedCandidatesByUnion[g].list[i + 1].identifier)
        /\ SameForReversedRows

\* With the list UGT, CCOO the keys are UGT then CCOO, and 'Álvarez Ana' is listed
\* before 'Pérez Juan' although its row comes second.
C17_Witness ==
    /\ dupStep = "done"
    /\ ResultKeys = <<UGT, CCOO>>
    /\ getCandidateIdentifier(data[1]) = S("Pérez Juan")
    /\ IdentifiersOf(duplicatedCandidatesByUnion)[1].identifiers
          = <<S("Álvarez Ana"), S("Pérez Juan")>>

\* The identities checked under two or more unions of the list.
DuplicateIdentities == {x \in Identities : Cardinality(AccumulatedUnions(x)) >= 2}

\* C18: a union is a key of the result exactly when some duplicate identity is
\* checked under it; no key has an empty list; hasDuplicates is true exactly
\* when some identity is checked under two or more unions of the list.
C18_NoEmptyKeys ==
    dupStep = "done" =>
        /\ Range(ResultKeys)
              = {u \in Range(allUnions) : \E x \in DuplicateIdentities : u \in AccumulatedUnions(x)}
        /\ \A g \in 1..Len(duplicatedCandidatesByUnion) :
              Len(duplicatedCandidatesByUnion[g].list) > 0
        /\ hasDuplicates(duplicatedCandidatesByUnion) <=> DuplicateIdentities # {}

\* With the list CCOO, UGT, SB a duplicate of CCOO and UGT gives these two keys
\* and no key SB.
C18_Witness ==
    /\ dupStep = "done"
    /\ allUnions = <<CCOO, UGT, SB>>
    /\ ResultKeys = <<CCOO, UGT>>
    /\ hasDuplicates(duplicatedCandidatesByUnion)

\* The selection state without the marks of the unions that are not in the list.
CheckedInList ==
    [i \in DOMAIN checkedState |->
        [u \in DOMAIN checkedState[i] |-> checkedState[i][u] /\ u \in Range(allUnions)]]

\* C19: a union marked in checkedState that is not in the union list is ignored:
\* it is no key of the result, it is in no otherUnions, it does not count toward
\* the two unions of a duplicate, and the result is the one of the selection
\* state without it.
C19_AbsentUnionIgnored ==
    dupStep = "done" =>
        /\ Range(ResultKeys) \subseteq Range(allUnions)
        /\ \A p \in Listed :
              /\ Range(p[2].otherUnions) \subseteq Range(allUnions)
              /\ Cardinality({u \in Range(allUnions) :
                                 \E i \in 1..Len(data) :
                                     /\ getCandidateIdentifier(data[i]) = p[2].identifier
                                     /\ IsChecked(checkedState, i - 1, u)}) >= 2
        /\ duplicatedCandidatesByUnion = groupedByUnion(data, CheckedInList, allUnions)

\* With the list UGT, CCOO a row is marked for CCOO and SB only, and nothing is
\* listed.
C19_Witness ==
    /\ dupStep = "done"
    /\ allUnions = <<UGT, CCOO>>
    /\ Len(data) = 1
    /\ IsChecked(checkedState, 0, CCOO) /\ IsChecked(checkedState, 0, SB)
    /\ ~IsChecked(checkedState, 0, UGT)
    /\ duplicatedCandidatesByUnion = <<>>

(***************************************************************************)
(* The inputs of the date normalizer.                                      *)
(***************************************************************************)
MaxDateRows == 2

\* Local time minus UTC, in quarter hours: UTC-5, UTC, UTC+2.
TimeZoneOffsets == {0 - 20, 0, 8}

\* The first header of the data set: two that name a date column, one that does not.
DateHeaderPool == {S("Fecha Alta"), S("ANTIGÜEDAD"), S("Alta")}

Nombre == S("Nombre")

\* The values of the first column.
DateValuePool ==
    { Num(44927), Num(25569), Num(2958465),
      Str(S("05/06/23")), Str(S("5-6-2023")), Str(S("31/02/2023")), Str(S("31/12/9999")),
      Str(S("05/06/123")), Str(S("2023-01-01")), Str(S("hola")), Str(<<>>),
      Null, Bool(TRUE), DateOf(DaysFromCivil(2023, 6, 5) * TicksPerDay) }

DateInit ==
    /\ \E h \in DateHeaderPool : dateHeaders = <<h, Nombre>>
    /\ \E n \in 1..MaxDateRows :
          \E values \in [1..n -> DateValuePool] :
              dateData = [i \in 1..n |->
                            <<Cell(dateHeaders[1], values[i]), Cell(Nombre, Str(S("05/06/23")))>>]
    /\ dateOut = <<>>
    /\ dateAgain = <<>>
    /\ dateStep = "input"

DateIdle ==
    /\ dateHeaders = <<>>
    /\ dateData = <<>>
    /\ dateOut = <<>>
    /\ dateAgain = <<>>
    /\ dateStep = "idle"

\* processDataForDates(data, headers).
ProcessDates ==
    /\ dateStep = "input"
    /\ dateOut' = processDataForDates(dateData, dateHeaders, tzOffset)
    /\ dateStep' = "done"
    /\ UNCHANGED <<dateHeaders, dateData, dateAgain>>

\* processDataForDates on the rows it returned.
ProcessDatesAgain ==
    /\ dateStep = "done"
    /\ dateAgain' = processDataForDates(dateOut, dateHeaders, tzOffset)
    /\ dateStep' = "again"
    /\ UNCHANGED <<dateHeaders, dateData, dateOut>>

(***************************************************************************)
(* Properties of the date normalizer.                                      *)
(***************************************************************************)
\* The first column is a date column, and the rows have been processed.
DateColumnDone == dateStep \in {"done", "again"} /\ IsDateHeader(dateHeaders[1])

\* The zero-padded DD-MM-YYYY of a year, month and day.
DayMonthYear(fields) ==
    padStart2(fields.day) \o <<45>> \o padStart2(fields.month) \o <<45>>
        \o NatToString(fields.year)

\* The calendar day that lies serial days after 30 December 1899.
SerialDay(serial) == CivilFromDays(DaysFromCivil(1899, 12, 30) + serial)

\* C7: an integer serial n > 25569 in a date column becomes the DD-MM-YYYY of the
\* day n days after 30 December 1899, whatever the time-zone offset.
C7_SerialDayAnyZone ==
    DateColumnDone =>
        \A i \in 1..Len(dateData) :
            LET value == dateData[i][1].v
            IN  (value.t = "number" /\ value.n > 25569) =>
                    dateOut[i][1].v = Str(DayMonthYear(SerialDay(value.n)))

\* The day, month and year a day/month/year text is parsed to.
ParsedFields(s) ==
    LET parts == matchParts(s)
        y == parseInt(parts[3])
    IN  [day |-> parseInt(parts[1]), month |-> parseInt(parts[2]),
         year |-> IF y < 100 THEN 2000 + y ELSE y]

\* C8: every matching text whose resulting year is above 1000 becomes
\* the zero-padded text of exactly its day, month and year.
C8_EveryMatchingText ==
    DateColumnDone =>
        \A i \in 1..Len(dateData) :
            LET value == dateData[i][1].v
            IN  (/\ value.t = "string"
                 /\ matchParts(value.s) # <<>>
                 /\ ParsedFields(value.s).year > 1000) =>
                    dateOut[i][1].v = Str(DayMonthYear(ParsedFields(value.s)))

\* The text is DD-MM-YYYY: two digits, two digits and four digits.
IsDDMMYYYY(s) ==
    /\ Len(s) = 10
    /\ s[3] = 45 /\ s[6] = 45
    /\ AllDigits(SubSeq(s, 1, 2)) /\ AllDigits(SubSeq(s, 4, 5)) /\ AllDigits(SubSeq(s, 7, 10))

\* C9: a DD-MM-YYYY text the normalizer has put in a date column is left as it
\* is when the normalizer runs on it again.
C9_NormalizeIdempotent ==
    (dateStep = "again" /\ IsDateHeader(dateHeaders[1])) =>
        \A i \in 1..Len(dateData) :
            (/\ acceptsDate(dateOfValue(dateData[i][1].v, tzOffset), tzOffset)
             /\ IsDDMMYYYY(dateOut[i][1].v.s)) =>
                dateAgain[i][1].v = dateOut[i][1].v

C9_Witness ==
    /\ dateStep = "again"
    /\ IsDateHeader(dateHeaders[1])
    /\ \E i \in 1..Len(dateData) :
          /\ dateData[i][1].v = Num(44927)
          /\ IsDDMMYYYY(dateOut[i][1].v.s)
          /\ dateAgain[i][1].v = dateOut[i][1].v

\* The text names a day of the calendar.
NamesCalendarDay(fields) ==
    /\ fields.month \in 1..12
    /\ fields.day \in 1..DaysInMonth(fields.year, fields.month)

\* No rule gives the value a valid date of a year above 1000: a number up to
\* 25569, a boolean, null, a text that is no date, a text of a day of a year up
\* to 1000.
YieldsNoDate(value) ==
    \/ value.t = "number" /\ value.n <= 25569
    \/ value.t \in {"boolean", "null", "undefined"}
    \/ /\ value.t = "string"
       /\ matchParts(value.s) = <<>>
       /\ ~NewDateParse(value.s).valid
    \/ /\ value.t = "string"
       /\ matchParts(value.s) # <<>>
       /\ NamesCalendarDay(ParsedFields(value.s))
       /\ ParsedFields(value.s).year <= 1000

\* C21: in a date column a value that no rule gives a valid date of a year
\* above 1000 is returned as it was, in a row that is as it was; no value
\* becomes the empty string, and every row is returned.
C21_FailOpenGuard ==
    DateColumnDone =>
        /\ Len(dateOut) = Len(dateData)
        /\ \A i \in 1..Len(dateData) :
              /\ YieldsNoDate(dateData[i][1].v) => dateOut[i] = dateData[i]
              /\ dateOut[i][1].v = Str(<<>>) => dateData[i][1].v = Str(<<>>)

\* The rows '05/06/123' and null of a date column have been returned as they were.
C21_Witness ==
    /\ DateColumnDone
    /\ Len(dateData) = 2
    /\ dateData[1][1].v = Str(S("05/06/123"))
    /\ dateData[2][1].v = Null
    /\ dateOut = dateData

(***************************************************************************)
(* services/fileParser.ts: parseFile.  The promise is a record: its state, *)
(* the value it resolved with (headers, data) and the message of the error *)
(* it rejected with.  A callback returns the settlement of the promise and *)
(* the processing steps it ran.                                            *)
(***************************************************************************)
\* name.split('.').pop(): the text after the last '.', the whole name when it
\* has none.
pop(name) ==
    LET dots == {i \in 1..Len(name) : name[i] = 46}
        last == IF dots = {} THEN 0 ELSE CHOOSE i \in dots : \A j \in dots : j <= i
    IN  SubSeq(name, last + 1, Len(name))

extension(name) == toLowerCase(pop(name))

NoPromise == [state |-> "none", headers |-> <<>>, data |-> <<>>, message |-> <<>>]

Pending == [state |-> "pending", headers |-> <<>>, data |-> <<>>, message |-> <<>>]

resolve(headers, rows) ==
    [state |-> "resolved", headers |-> headers, data |-> rows, message |-> <<>>]

reject(message) ==
    [state |-> "rejected", headers |-> <<>>, data |-> <<>>, message |-> message]

Outcome(settled, ran) == [settled |-> settled, steps |-> ran]

\* data.flatMap(row => Object.keys(row)).
RECURSIVE flatKeys(_)
flatKeys(rows) ==
    IF Len(rows) = 0 THEN <<>> ELSE keysOf(rows[1]) \o flatKeys(Tail(rows))

\* Array.from(new Set(array)): the first occurrence of each element, in order.
Distinct(seq) == Pick(seq, {i \in 1..Len(seq) : \A j \in 1..(i - 1) : seq[j] # seq[i]})

\* A bug the header scan could have: only the first row is looked at.
allHeadersOfFirstRow(rows) == keysOf(rows[1])

allHeaders(rows) == Distinct(flatKeys(rows))

\* A bug processAndResolve could have: no early return for an empty array.
processAndResolveUnguarded(rows, tz) ==
    Outcome(resolve(allHeaders(rows), processDataForDates(rows, allHeaders(rows), tz)),
            <<"allHeaders", "processDataForDates">>)

processAndResolve(rows, tz) ==
    IF Len(rows) = 0 THEN Outcome(resolve(<<>>, <<>>), <<>>)
    ELSE Outcome(resolve(allHeaders(rows), processDataForDates(rows, allHeaders(rows), tz)),
                 <<"allHeaders", "processDataForDates">>)

\* Object.values(row).every(val => val === null || val === '').
isEmptyRow(row) == \A i \in 1..Len(row) : row[i].v = Null \/ row[i].v = Str(<<>>)

keptRows(rows) == Pick(rows, {i \in 1..Len(rows) : ~isEmptyRow(rows[i])})

\* A bug the complete callback could have: the reported errors are not looked at.
completeIgnoringErrors(results, tz) ==
    IF ~results.hasData THEN Outcome(resolve(<<>>, <<>>), <<>>)
    ELSE processAndResolve(keptRows(results.data), tz)

\* Papa.parse: the complete callback.
complete(results, tz) ==
    IF Len(results.errors) > 0 THEN Outcome(reject(join(results.errors, <<10>>)), <<>>)
    ELSE IF ~results.hasData THEN Outcome(resolve(<<>>, <<>>), <<>>)
    ELSE processAndResolve(keptRows(results.data), tz)

\* Papa.parse: the error callback.
error(message) == Outcome(reject(S("Error al parsear CSV: ") \o message), <<>>)

JsonValue(kind, rows, message) == [t |-> kind, rows |-> rows, message |-> message]

\* JSON.parse on the texts of the model: the value, or the SyntaxError thrown.
JSONparse(text) ==
    CASE text = S("[]") -> JsonValue("array", <<>>, <<>>)
      [] text = S("[{\"a\":1},{\"b\":2}]") ->
            JsonValue("array", << <<Cell(S("a"), Num(1))>>, <<Cell(S("b"), Num(2))>> >>, <<>>)
      [] text = S("[{\"Nombre\":\"Ana\",\"Fecha Alta\":44927},{\"DNI\":\"1\",\"Nombre\":null}]") ->
            JsonValue("array",
                      << <<Cell(S("Nombre"), Str(S("Ana"))), Cell(S("Fecha Alta"), Num(44927))>>,
                         <<Cell(S("DNI"), Str(S("1"))), Cell(S("Nombre"), Null)>> >>,
                      <<>>)
      [] text = S("{}") -> JsonValue("object", <<>>, <<>>)
      [] text = S("{\"filas\":[]}") -> JsonValue("object", <<>>, <<>>)
      [] text = S("null") -> JsonValue("null", <<>>, <<>>)
      [] text = S("7") -> JsonValue("number", <<>>, <<>>)
      [] text = S("[{\"a\":1},") ->
            JsonValue("throws", <<>>, S("Unexpected end of JSON input"))
      [] OTHER -> JsonValue("throws", <<>>,
                            S("Unexpected token ") \o SubSeq(text, 1, 1)
                                \o S(" in JSON at position 0"))

\* FileReader.onload of the JSON branch; text is event.target.result.
jsonOnload(text, tz) ==
    IF Len(text) = 0 THEN Outcome(reject(S("No se pudo leer el archivo JSON.")), <<>>)
    ELSE IF JSONparse(text).t = "throws"
    THEN Outcome(reject(S("JSON inválido: ") \o JSONparse(text).message), <<>>)
    ELSE IF JSONparse(text).t # "array"
    THEN Outcome(reject(S("El archivo JSON debe contener un array de objetos.")), <<>>)
    ELSE processAndResolve(JSONparse(text).rows, tz)

\* FileReader.onload of the spreadsheet branch.  read is what the reader and
\* XLSX.read give: no result, an error thrown, or a workbook, whose sheets are
\* the rows sheet_to_json returns for each.
xlsxOnload(read, tz) ==
    IF ~read.present THEN Outcome(reject(S("No se pudo leer el archivo de Excel.")), <<>>)
    ELSE IF read.throws
    THEN Outcome(reject(S("Error al procesar el archivo de Excel: ") \o read.message), <<>>)
    ELSE IF Len(read.SheetNames) = 0
    THEN Outcome(reject(S("El archivo de Excel no contiene hojas.")), <<>>)
    ELSE processAndResolve(read.Sheets[1], tz)

\* FileReader.onerror.
onerror == Outcome(reject(S("Error al leer el archivo.")), <<>>)

Supported == {S("csv"), S("json"), S("xlsx"), S("xls")}

(***************************************************************************)
(* The files parseFile is given, and what the reader and the libraries     *)
(* hand to its callbacks.                                                  *)
(***************************************************************************)
MaxParseRows == 2

FileNames ==
    { S("datos.csv"), S("DATOS.CSV"), S("lista.v2.json"), S("censo.xlsx"), S("censo.xls"),
      S("notas.txt"), S("datos.csv.bak"), S("datos"), S("datos."), S("csv") }

RowLists(pool, n) == UNION {[1..k -> pool] : k \in 0..n}

\* Rows of Papa.parse with header: true: the same keys in every row, text values.
PapaRowPool ==
    { <<Cell(S("Nombre"), Str(<<>>)), Cell(S("Fecha Alta"), Str(<<>>))>>,
      <<Cell(S("Nombre"), Str(S("Ana"))), Cell(S("Fecha Alta"), Str(S("05/06/23")))>>,
      <<Cell(S("Nombre"), Str(S("Luis"))), Cell(S("Fecha Alta"), Str(<<>>))>> }

PapaErrorLists ==
    { <<>>,
      <<S("Too few fields: expected 2 fields but parsed 1")>>,
      <<S("Quoted field unterminated"), S("Too few fields: expected 2 fields but parsed 1")>> }

PapaResults ==
    {[errors |-> e, hasData |-> TRUE, data |-> d] :
        e \in PapaErrorLists, d \in RowLists(PapaRowPool, MaxParseRows)}
        \cup {[errors |-> <<>>, hasData |-> FALSE, data |-> <<>>]}

ReadErrorMessages == {S("The requested file could not be read")}

JsonTexts ==
    { <<>>, S("[]"), S("[{\"a\":1},{\"b\":2}]"),
      S("[{\"Nombre\":\"Ana\",\"Fecha Alta\":44927},{\"DNI\":\"1\",\"Nombre\":null}]"),
      S("{}"), S("{\"filas\":[]}"), S("null"), S("7"), S("[{\"a\":1},"), S("hola") }

\* Rows of sheet_to_json: a row has the keys of its non-empty cells only.
SheetRowPool ==
    { <<Cell(S("a"), Num(1))>>,
      <<Cell(S("b"), Num(2))>>,
      <<Cell(S("Fecha Alta"), Num(44927)), Cell(S("Nombre"), Str(S("Ana")))>>,
      <<Cell(S("Nombre"), Str(S("05/06/23"))), Cell(S("FECHA ALTA"), Str(S("05/06/23"))),
        Cell(S("a"), Bool(TRUE))>> }

Workbook(names, sheets) ==
    [present |-> TRUE, throws |-> FALSE, message |-> <<>>, SheetNames |-> names,
     Sheets |-> sheets]

SheetReads ==
    { [present |-> FALSE, throws |-> FALSE, message |-> <<>>, SheetNames |-> <<>>,
       Sheets |-> <<>>],
      [present |-> TRUE, throws |-> TRUE, message |-> S("File is password-protected"),
       SheetNames |-> <<>>, Sheets |-> <<>>],
      Workbook(<<>>, <<>>) }
        \cup {Workbook(<<S("Hoja1")>>, <<rows>>) : rows \in RowLists(SheetRowPool, MaxParseRows)}
        \cup {Workbook(<<S("Hoja1"), S("Hoja2")>>, <<rows, <<<<Cell(S("a"), Num(1))>>>> >>) :
                 rows \in RowLists(SheetRowPool, 1)}

NothingReceived == [via |-> "none"]

ParseInit ==
    /\ fileName \in FileNames
    /\ promise = NoPromise
    /\ received = NothingReceived
    /\ steps = <<>>

ParseIdle ==
    /\ fileName = <<>>
    /\ promise = NoPromise
    /\ received = NothingReceived
    /\ steps = <<>>

\* parseFile(file): the promise is created and the file is handed to the reader of
\* its extension, or the promise is rejected at once.
ParseFile ==
    /\ promise.state = "none"
    /\ promise' = IF extension(fileName) \in Supported THEN Pending
                  ELSE reject(S("Tipo de archivo no soportado: .") \o extension(fileName))
    /\ UNCHANGED <<fileName, received, steps>>

\* A callback runs and settles the promise.
Settle(input, outcome) ==
    /\ received' = input
    /\ promise' = outcome.settled
    /\ steps' = outcome.steps
    /\ UNCHANGED fileName

PapaComplete ==
    /\ promise.state = "pending"
    /\ extension(fileName) = S("csv")
    /\ \E results \in PapaResults :
          Settle([via |-> "complete", results |-> results], complete(results, tzOffset))

PapaError ==
    /\ promise.state = "pending"
    /\ extension(fileName) = S("csv")
    /\ \E message \in ReadErrorMessages :
          Settle([via |-> "error", message |-> message], error(message))

JsonOnload ==
    /\ promise.state = "pending"
    /\ extension(fileName) = S("json")
    /\ \E text \in JsonTexts :
          Settle([via |-> "jsonOnload", text |-> text], jsonOnload(text, tzOffset))

XlsxOnload ==
    /\ promise.state = "pending"
    /\ extension(fileName) \in {S("xlsx"), S("xls")}
    /\ \E read \in SheetReads :
          Settle([via |-> "xlsxOnload", read |-> read], xlsxOnload(read, tzOffset))

ReaderOnerror ==
    /\ promise.state = "pending"
    /\ extension(fileName) \in {S("json"), S("xlsx"), S("xls")}
    /\ Settle([via |-> "onerror"], onerror)

(***************************************************************************)
(* Properties of parseFile.                                                *)
(***************************************************************************)
\* The failure cases: an unsupported extension, a CSV with reported errors, JSON
\* that does not parse, JSON whose root is no array, a workbook without sheets,
\* a read failure.
UnsupportedExtension == promise.state # "none" /\ extension(fileName) \notin Supported

CsvWithErrors == received.via = "complete" /\ Len(received.results.errors) >= 1

JsonNotParsed ==
    /\ received.via = "jsonOnload"
    /\ Len(received.text) > 0
    /\ JSONparse(received.text).t = "throws"

JsonRootNotArray ==
    /\ received.via = "jsonOnload"
    /\ Len(received.text) > 0
    /\ JSONparse(received.text).t \notin {"throws", "array"}

NoSheets ==
    /\ received.via = "xlsxOnload"
    /\ received.read.present
    /\ ~received.read.throws
    /\ Len(received.read.SheetNames) = 0

ReadFailure == received.via \in {"error", "onerror"}

FailureCase ==
    \/ UnsupportedExtension
    \/ CsvWithErrors
    \/ JsonNotParsed
    \/ JsonRootNotArray
    \/ NoSheets
    \/ ReadFailure

\* C4: in every failure case (unsupported extension, CSV with at least one
\* reported error, JSON that fails to parse, JSON whose root is not an array,
\* spreadsheet with zero sheets, file-read failure) the promise of parseFile is
\* rejected with a non-empty message, and it has not resolved with a dataset.
C4_FailureRejects ==
    FailureCase =>
        /\ promise.state = "rejected"
        /\ Len(promise.message) > 0
        /\ promise.headers = <<>>
        /\ promise.data = <<>>

\* A CSV whose rows came with two reported errors has been rejected.
C4_Witness ==
    /\ CsvWithErrors
    /\ Len(received.results.errors) = 2
    /\ Len(received.results.data) > 0
    /\ promise.state = "rejected"

\* The rows a successful parse hands to processAndResolve.
ParsedOk ==
    \/ received.via = "complete" /\ Len(received.results.errors) = 0
    \/ received.via = "jsonOnload" /\ Len(received.text) > 0
          /\ JSONparse(received.text).t = "array"
    \/ received.via = "xlsxOnload" /\ received.read.present /\ ~received.read.throws
          /\ Len(received.read.SheetNames) > 0

ParsedRows ==
    CASE received.via = "complete" ->
            Pick(received.results.data,
                 {i \in 1..Len(received.results.data) :
                     \E j \in 1..Len(received.results.data[i]) :
                         received.results.data[i][j].v \notin {Null, Str(<<>>)}})
      [] received.via = "jsonOnload" -> JSONparse(received.text).rows
      [] received.via = "xlsxOnload" -> received.read.Sheets[1]

\* C5: a source that parses successfully to zero rows makes parseFile resolve
\* with headers = [] and data = [], and neither the header union nor the date
\* processing is run.
C5_ZeroRowsResolveEmpty ==
    (ParsedOk /\ Len(ParsedRows) = 0) =>
        /\ promise = resolve(<<>>, <<>>)
        /\ steps = <<>>

\* A CSV whose two rows were both dropped as empty has resolved.
C5_Witness ==
    /\ received.via = "complete"
    /\ ParsedOk
    /\ Len(received.results.data) = 2
    /\ Len(ParsedRows) = 0
    /\ promise.state = "resolved"

\* The place of the first occurrence of a key in the scan of the rows: rows in
\* order, and the keys of a row in order.
FirstSeen(rows, key) ==
    LET r == CHOOSE i \in 1..Len(rows) :
                 /\ key \in Range(keysOf(rows[i]))
                 /\ \A j \in 1..(i - 1) : key \notin Range(keysOf(rows[j]))
        c == CHOOSE j \in 1..Len(rows[r]) : rows[r][j].k = key
    IN  <<r, c>>

ScannedBefore(a, b) == a[1] < b[1] \/ (a[1] = b[1] /\ a[2] < b[2])

\* C6: the headers parseFile resolves with are the union of the keys of every
\* parsed row, without duplicates, in first-seen order over the row scan; they
\* contain the keys of each returned row; rows [{a:1},{b:2}] give ['a','b'].
C6_HeaderUnion ==
    (ParsedOk /\ Len(ParsedRows) > 0) =>
        /\ promise.state = "resolved"
        /\ \A i, j \in 1..Len(promise.headers) :
              i # j => promise.headers[i] # promise.headers[j]
        /\ Range(promise.headers) = UNION {Range(keysOf(ParsedRows[i])) : i \in 1..Len(ParsedRows)}
        /\ \A i, j \in 1..Len(promise.headers) :
              i < j => ScannedBefore(FirstSeen(ParsedRows, promise.headers[i]),
                                     FirstSeen(ParsedRows, promise.headers[j]))
        /\ \A i \in 1..Len(promise.data) :
              Range(keysOf(promise.data[i])) \subseteq Range(promise.headers)
        /\ ([i \in 1..Len(ParsedRows) |-> keysOf(ParsedRows[i])] = <<<<S("a")>>, <<S("b")>>>>
               => promise.headers = <<S("a"), S("b")>>)

\* The rows [{a:1},{b:2}] of a sheet have resolved with the headers ['a','b'].
C6_Witness ==
    /\ received.via = "xlsxOnload"
    /\ ParsedOk
    /\ ParsedRows = << <<Cell(S("a"), Num(1))>>, <<Cell(S("b"), Num(2))>> >>
    /\ promise.state = "resolved"
    /\ promise.headers = <<S("a"), S("b")>>

\* The header contains the word, whatever the case of its letters.
ContainsWord(h, word) ==
    \E a \in 1..Len(h) :
        /\ a + Len(word) - 1 <= Len(h)
        /\ \A k \in 1..Len(word) : LowerUnit(h[a + k - 1]) = word[k]

NamesDate(h) == ContainsWord(h, S("fecha")) \/ ContainsWord(h, S("antigüedad"))

SearchIdle ==
    /\ originalData = <<>>
    /\ searchTerm = <<>>
    /\ searchableData = <<>>
    /\ filteredData = <<>>
    /\ renderedIndex = <<>>
    /\ effects = {}

(***************************************************************************)
(* The App component: normalizeText, the search index and the row filter.  *)
(***************************************************************************)
\* String.prototype.normalize("NFD") on Basic Latin, Latin-1 and the combining
\* marks: an accented letter becomes its base letter and its mark.
RECURSIVE normalizeNFD(_)
normalizeNFD(s) ==
    IF Len(s) = 0 THEN <<>>
    ELSE (IF MarkUnit(s[1]) = 0 THEN <<s[1]>> ELSE <<BaseUnit(s[1]), MarkUnit(s[1])>>)
             \o normalizeNFD(Tail(s))

\* [\u0300-\u036f]: the combining diacritical marks.
IsDiacritic(u) == u >= 768 /\ u <= 879

\* [.,/#!$%^&*;:{}=\-_`~()], the grave accent being U+0060.
IsPunctuation(u) == u \in Range(S(".,/#!$%^&*;:{}=-_~()")) \cup {96}

\* .replace(/[\u0300-\u036f]/g, "").
withoutDiacritics(text) == Pick(text, {i \in 1..Len(text) : ~IsDiacritic(text[i])})

\* .replace(/[.,/#!$%^&*;:{}=\-_`~()]/g, "").
withoutPunctuation(text) == Pick(text, {i \in 1..Len(text) : ~IsPunctuation(text[i])})

\* Each method of the chain is applied to the value of the call before it.
normalizeText(text) ==
    IF Len(text) = 0 THEN <<>>
    ELSE CHOOSE result \in
             {withoutPunctuation(lowered) :
                  lowered \in {toLowerCase(bare) :
                      bare \in {withoutDiacritics(decomposed) :
                          decomposed \in {normalizeNFD(written) :
                              written \in {text}}}}} : TRUE

\* String.prototype.split on a one-character separator.
RECURSIVE split(_, _)
split(s, sep) ==
    IF \A i \in 1..Len(s) : s[i] # sep THEN <<s>>
    ELSE LET p == CHOOSE i \in 1..Len(s) : s[i] = sep /\ \A j \in 1..(i - 1) : s[j] # sep
         IN  <<SubSeq(s, 1, p - 1)>> \o split(SubSeq(s, p + 1, Len(s)), sep)

\* Array.prototype.join over cell values: null and undefined give the empty string.
joinValues(values, sep) ==
    join([i \in 1..Len(values) |-> IF Nullish(values[i]) THEN <<>> ELSE String(values[i])],
         sep)

\* A bug the index could have: the text of a row is not normalized.
processedAsWritten(rows) ==
    [i \in 1..Len(rows) |->
        [searchableString |-> joinValues(valuesOf(rows[i].row), <<32>>),
         originalIndex |-> rows[i].originalIndex]]

\* The effect on originalData: the search index.
processed(rows) ==
    [i \in 1..Len(rows) |->
        [searchableString |-> normalizeText(joinValues(valuesOf(rows[i].row), <<32>>)),
         originalIndex |-> rows[i].originalIndex]]

searchTerms(term) ==
    LET pieces == split(normalizeText(term), 32)
    IN  Pick(pieces, {i \in 1..Len(pieces) : trim(pieces[i]) # <<>>})

\* A bug the filter could have: one term found is enough.
someTerm(searchableString, terms) ==
    \E i \in 1..Len(terms) : includes(searchableString, terms[i])

\* searchTerms.every(term => searchableString.includes(term)).
everyTerm(searchableString, terms) ==
    \A i \in 1..Len(terms) : includes(searchableString, terms[i])

\* The effect on deferredSearchTerm, originalData and searchableData: the rows
\* shown.
filtered(rows, index, term) ==
    IF Len(searchTerms(term)) = 0 THEN rows
    ELSE LET filteredIndexes ==
                 {index[i].originalIndex :
                     i \in {j \in 1..Len(index) :
                                everyTerm(index[j].searchableString, searchTerms(term))}}
         IN  Pick(rows, {i \in 1..Len(rows) : rows[i].originalIndex \in filteredIndexes})

(***************************************************************************)
(* The datasets and the queries of the search.                             *)
(***************************************************************************)
MaxSearchRows == 2

SearchRowPool ==
    { <<Cell(S("Nombre"), Str(S("Ana"))), Cell(S("Apellidos"), Str(S("García")))>>,
      <<Cell(S("Nombre"), Str(S("Ana-María"))), Cell(S("Apellidos"), Str(S("Pérez")))>>,
      <<Cell(S("Nombre"), Str(S("JUAN"))), Cell(S("Baja"), Null), Cell(S("DNI"), Num(12))>> }

SearchTermPool ==
    { <<>>, S(" "), S("ana"), S("garcia ana"), S("ana garcia"), S("GARCÍA  Ana"),
      S("a.n-a"), S("maría - pérez"), S("juan 12"), S("n g"), S("zz") }

\* data.map((row, index) => ({ row, originalIndex: index })).
Indexed(rows) == [i \in 1..Len(rows) |-> [row |-> rows[i], originalIndex |-> i - 1]]

\* The component has mounted: its first render is committed and its effects are due.
SearchInit ==
    /\ originalData = <<>>
    /\ searchTerm = <<>>
    /\ searchableData = <<>>
    /\ filteredData = <<>>
    /\ renderedIndex = <<>>
    /\ effects = {"index", "filter"}

\* setOriginalData(dataWithIndices); setFilteredData(dataWithIndices): a dataset
\* arrives; the next render is committed and the two effects that depend on
\* originalData are due.
SetOriginalData ==
    /\ effects = {}
    /\ \E rows \in RowLists(SearchRowPool, MaxSearchRows) :
          /\ originalData' = Indexed(rows)
          /\ filteredData' = Indexed(rows)
    /\ renderedIndex' = searchableData
    /\ effects' = {"index", "filter"}
    /\ UNCHANGED <<searchTerm, searchableData>>

\* The deferred search term changes; the filter effect is due.
SetSearchTerm ==
    /\ effects = {}
    /\ \E term \in SearchTermPool :
          /\ term # searchTerm
          /\ searchTerm' = term
    /\ renderedIndex' = searchableData
    /\ effects' = {"filter"}
    /\ UNCHANGED <<originalData, searchableData, filteredData>>

\* useEffect(..., [originalData]): the index is rebuilt.
IndexEffect ==
    /\ "index" \in effects
    /\ searchableData' = processed(originalData)
    /\ effects' = effects \ {"index"}
    /\ UNCHANGED <<originalData, searchTerm, filteredData, renderedIndex>>

\* useEffect(..., [deferredSearchTerm, originalData, searchableData]): the rows are
\* filtered with the index of the render the effect belongs to.  When the index
\* has been replaced in the meantime, a new render is committed and the effect
\* is due again.
FilterEffect ==
    /\ effects = {"filter"}
    /\ filteredData' = filtered(originalData, renderedIndex, searchTerm)
    /\ renderedIndex' = searchableData
    /\ effects' = IF searchableData # renderedIndex THEN {"filter"} ELSE {}
    /\ UNCHANGED <<originalData, searchTerm, searchableData>>

(***************************************************************************)
(* Properties of the search.                                               *)
(***************************************************************************)
\* A text accent-stripped, lower-cased and punctuation-stripped, one character
\* at a time.
Folded(text) ==
    LET keeps == {i \in 1..Len(text) : ~IsDiacritic(text[i]) /\ ~IsPunctuation(text[i])}
    IN  [k \in 1..Cardinality(keeps) |->
            LowerUnit(BaseUnit(text[CHOOSE i \in keeps : Cardinality({j \in keeps : j <= i}) = k]))]

\* The terms of a query: its pieces between spaces, normalized, the blank ones
\* left out.
TermSet(term) == {Folded(piece) : piece \in Range(split(term, 32))} \ {<<>>}

\* The field values of a row joined by one space, then normalized.
Concatenation(row) ==
    Folded(join([i \in 1..Len(row) |->
                    IF row[i].v.t \in {"null", "undefined"} THEN <<>> ELSE String(row[i].v)],
                <<32>>))

Contains(text, term) ==
    \E from \in 1..Len(text) : \E to \in from..Len(text) : SubSeq(text, from, to) = term

\* C10: once the effects of a change have run, the rows shown are exactly the
\* rows whose normalized concatenation contains every normalized term of the
\* query; a query with the same terms in another order gives the same rows; a
\* query with no terms shows every row.
C10_SearchAllTerms ==
    effects = {} =>
        /\ filteredData =
              Pick(originalData,
                   {i \in 1..Len(originalData) :
                       \A term \in TermSet(searchTerm) :
                           Contains(Concatenation(originalData[i].row), term)})
        /\ \A other \in SearchTermPool :
              TermSet(other) = TermSet(searchTerm) =>
                  filtered(originalData, searchableData, other) = filteredData
        /\ (TermSet(searchTerm) = {} => filteredData = originalData)

\* A query of two terms has kept one row of two.
C10_Witness ==
    /\ effects = {}
    /\ Cardinality(TermSet(searchTerm)) = 2
    /\ Len(originalData) = 2
    /\ Len(filteredData) = 1

(***************************************************************************)
(* components/DataTable.tsx: the identifier of a row in the table.         *)
(***************************************************************************)
TableNamePattern == {S("nombre"), S("apellidos"), S("name")}

\* The truthiness of a cell value.
truthy(value) ==
    CASE value.t = "string" -> Len(value.s) > 0
      [] value.t = "number" -> value.n # 0
      [] value.t = "boolean" -> value.n = 1
      [] value.t = "date" -> TRUE
      [] OTHER -> FALSE

\* getCandidateIdentifier of DataTable.tsx.
DataTable_getCandidateIdentifier(row) ==
    LET keys == keysOf(row)
        nameKeys == Pick(keys, {i \in 1..Len(keys) : TestAny(keys[i], TableNamePattern)})
        found == {i \in 1..Len(row) : truthy(row[i].v)}
    IN  IF Len(nameKeys) > 0
        THEN trim(joinValues([i \in 1..Len(nameKeys) |-> Get(row, nameKeys[i])], <<32>>))
        ELSE IF found = {} THEN S("Candidato Desconocido")
        ELSE String(row[CHOOSE i \in found : \A j \in found : i <= j].v)

(***************************************************************************)
(* The rows the identity of which is computed.                             *)
(***************************************************************************)
MaxCells == 2

IdentityKeyPool ==
    {S("Apellidos"), S("Apellidos2"), S("Nombre"), S("Candidato"), S("DNI"), S("Centro"),
     S("Puesto")}

IdentityValuePool == {Str(S("Pérez")), Str(S("Juan")), Str(<<>>), Null}

\* The rows of at most n cells, the keys of a row being distinct.
IdentityRows(n) ==
    UNION {{row \in [1..k -> {Cell(key, value) : key \in IdentityKeyPool,
                                                  value \in IdentityValuePool}] :
               \A i, j \in 1..k : i # j => row[i].k # row[j].k} : k \in 0..n}

\* The header lists of a dataset the row is of: the keys of the row, in the
\* order of the row, or after the column Puesto of an earlier row when the row
\* has none, or in the opposite order when the row has it.
IdentityHeaders(row) ==
    IF \E i \in 1..Len(row) : row[i].k = S("Puesto")
    THEN {keysOf(row), [i \in 1..Len(row) |-> row[Len(row) + 1 - i].k]}
    ELSE {<<S("Puesto")>> \o keysOf(row)} \cup {hs \in {keysOf(row)} : Len(hs) > 0}

IdentityInit ==
    /\ identityRow \in IdentityRows(MaxCells)
    /\ identityHeaders \in IdentityHeaders(identityRow)
    /\ reportIdentifier = <<>>
    /\ tableIdentifier = <<>>
    /\ identityStep = "input"

IdentityIdle ==
    /\ identityRow = <<>>
    /\ identityHeaders = <<>>
    /\ reportIdentifier = <<>>
    /\ tableIdentifier = <<>>
    /\ identityStep = "idle"

\* The Report computes the identity of the row.
ReportIdentifies ==
    /\ identityStep \in {"input", "table"}
    /\ reportIdentifier' = getCandidateIdentifier(identityRow)
    /\ identityStep' = IF identityStep = "input" THEN "report" ELSE "both"
    /\ UNCHANGED <<identityRow, identityHeaders, tableIdentifier>>

\* The DataTable computes the identifier of the row.
TableIdentifies ==
    /\ identityStep \in {"input", "report"}
    /\ tableIdentifier' = DataTable_getCandidateIdentifier(identityRow)
    /\ identityStep' = IF identityStep = "input" THEN "table" ELSE "both"
    /\ UNCHANGED <<identityRow, identityHeaders, reportIdentifier>>

(***************************************************************************)
(* Properties of the identity.                                             *)
(***************************************************************************)
\* The text of a candidate value: empty when the value is absent or null.
CandidateText(value) == IF value.t \in {"null", "undefined"} THEN <<>> ELSE String(value)

KeysMatching(row, literals) ==
    sort(Pick(keysOf(row),
              {i \in 1..Len(row) :
                  \E lit \in literals : includes(toLowerCase(row[i].k), lit)}))

TextsOf(row, keys) == [i \in 1..Len(keys) |-> CandidateText(Get(row, keys[i]))]

\* The results of the four rules, in their order: the surname and given-name
\* composition, the broad name columns, the identifier column, the first column.
RuleResults(row) ==
    LET surnames == KeysMatching(row, {S("apellidos")})
        given == Pick(KeysMatching(row, {S("nombre")}),
                      {i \in 1..Len(KeysMatching(row, {S("nombre")})) :
                          ~includes(toLowerCase(KeysMatching(row, {S("nombre")})[i]),
                                    S("apellidos"))})
        broad == KeysMatching(row, {S("nombre"), S("apellidos"), S("name"), S("candidato")})
        ids == {i \in 1..Len(row) :
                   \E lit \in {S("dni"), S("nif"), S("id")} :
                       includes(toLowerCase(row[i].k), lit)}
    IN  << trim(join(TextsOf(row, surnames) \o TextsOf(row, given), <<32>>)),
           trim(join(TextsOf(row, broad), <<32>>)),
           IF ids = {} THEN <<>>
           ELSE CandidateText(row[CHOOSE i \in ids : \A j \in ids : i <= j].v),
           IF Len(row) = 0 THEN <<>> ELSE CandidateText(row[1].v) >>

FirstNonEmpty(results) ==
    IF \A i \in 1..Len(results) : results[i] = <<>> THEN S("Candidato Desconocido")
    ELSE results[CHOOSE i \in 1..Len(results) :
                     results[i] # <<>> /\ \A j \in 1..(i - 1) : results[j] = <<>>]

\* C12: the identity of a row is the result of the first rule, in the order
\* surname and given-name composition, broad name columns, identifier column,
\* first column, whose result is not empty, and 'Candidato Desconocido' when
\* every one is empty; it is never the empty string.
C12_FirstNonEmptyRule ==
    identityStep \in {"report", "both"} =>
        /\ reportIdentifier = FirstNonEmpty(RuleResults(identityRow))
        /\ reportIdentifier # <<>>

\* C13: the identifier the DataTable computes for a row equals the identity the
\* Report computes for it.
C13_SharedIdentity ==
    identityStep = "both" => tableIdentifier = reportIdentifier

\* The row has a column of the pattern.
HasColumn(row, literals) == Len(KeysMatching(row, literals)) > 0

BroadLiterals == {S("nombre"), S("apellidos"), S("name"), S("candidato")}

IdentifierLiterals == {S("dni"), S("nif"), S("id")}

\* C22: the identity of a row with a surname column is the values of its surname
\* columns, sorted by column name, then the values of its given-name columns
\* that are no surname columns, sorted by column name, joined by single spaces
\* and trimmed.
C22_SurnameFirst ==
    (identityStep \in {"report", "both"} /\ HasColumn(identityRow, {S("apellidos")})) =>
        reportIdentifier = RuleResults(identityRow)[1]

\* A row with the columns Nombre and Apellidos, in this order, is 'Pérez Juan'.
C22_Witness ==
    /\ identityStep = "both"
    /\ identityRow = <<Cell(S("Nombre"), Str(S("Juan"))), Cell(S("Apellidos"), Str(S("Pérez")))>>
    /\ reportIdentifier = S("Pérez Juan")

C24_FirstHeaderColumn ==
    (/\ identityStep \in {"report", "both"}
     /\ ~HasColumn(identityRow, BroadLiterals)
     /\ ~HasColumn(identityRow, IdentifierLiterals)) =>
        reportIdentifier =
            IF Get(identityRow, identityHeaders[1]).t \in {"null", "undefined"}
            THEN S("Candidato Desconocido")
            ELSE String(Get(identityRow, identityHeaders[1]))

(***************************************************************************)
(* The persistence module (src/unnamed/part_002): one object store that    *)
(* holds at most one record, under STATE_KEY.  A request takes effect when *)
(* it is issued (the transactions of one store run in the order they were  *)
(* created); the promise of the caller is settled later.                   *)
(***************************************************************************)
NoRecord == [present |-> FALSE, value |-> <<>>]

\* store.put({ key: STATE_KEY, value: state }).
saveState(state) == [present |-> TRUE, value |-> state]

\* store.clear().
clearState == NoRecord

\* store.get(STATE_KEY): the value of the record, or null.
loadState(store) == IF store.present THEN [t |-> "state", value |-> store.value] ELSE Null

(***************************************************************************)
(* App (src/unnamed/part_001).                                             *)
(***************************************************************************)
NoDates == [submissionDate |-> <<>>, votingDate |-> <<>>]

DefaultUnions == <<S("CCOO"), S("UGT")>>

NoError == Null

\* A bug the table could have: the checkbox reports the position of the row in
\* the rows shown.
positionInView(shown, position) == position - 1

\* DataRow: the rowIndex its checkboxes report is the originalIndex of the entry.
rowIndexOf(shown, position) == shown[position].originalIndex

\* The AppState object that saveDataToDB and handleFileSelect build.
stateToSave(hs, rows, cs, dates, unions, name) ==
    [headers |-> hs, data |-> rows, checkedState |-> cs,
     settings |-> [dates |-> dates, unions |-> unions], fileName |-> name]

\* A bug the save could have: the rows are stored in the opposite order.
rowsReversed(indexed) == [i \in 1..Len(indexed) |-> indexed[Len(indexed) + 1 - i].row]

\* originalData.map(d => d.row).
rowsOf(indexed) == [i \in 1..Len(indexed) |-> indexed[i].row]

\* The saveDataToDB of a render: what it stores, if it stores.
saveDataToDB(closure, store) ==
    IF Len(closure.headers) > 0 /\ Len(closure.data) > 0 THEN saveState(closure) ELSE store

\* A bug the update could have: the other selections of the row are dropped.
withCheckedAlone(prevState, rowIndex, union, isChecked) ==
    [k \in DOMAIN prevState \cup {rowIndex} |->
        IF k # rowIndex THEN prevState[k] ELSE [u \in {union} |-> isChecked]]

\* setCheckedState(prevState => ({...prevState, [rowIndex]: {...prevState[rowIndex], [union]: isChecked}})).
withChecked(prevState, rowIndex, union, isChecked) ==
    [k \in DOMAIN prevState \cup {rowIndex} |->
        IF k # rowIndex THEN prevState[k]
        ELSE LET old == IF k \in DOMAIN prevState THEN prevState[k] ELSE <<>>
             IN  [u \in DOMAIN old \cup {union} |-> IF u = union THEN isChecked ELSE old[u]]]

\* checked={rowCheckedState?.[union] ?? false}.
shownChecked(cs, rowIndex, union) ==
    rowIndex \in DOMAIN cs /\ union \in DOMAIN cs[rowIndex] /\ cs[rowIndex][union]

\* The files the user selects: the name, and what the reader hands to parseFile.
MaxTasks == 2

\* The changes the user makes with the checkboxes, the search box and the settings.
MaxEdits == 2

FileA ==
    [name |-> S("censo.xlsx"),
     read |-> Workbook(<<S("Hoja1")>>,
                       << << <<Cell(S("Nombre"), Str(S("Ana"))), Cell(S("Apellidos"), Str(S("García")))>>,
                             <<Cell(S("Nombre"), Str(S("Luis"))), Cell(S("Apellidos"), Str(S("Pérez")))>> >> >>)]

FileB ==
    [name |-> S("otro.xlsx"),
     read |-> Workbook(<<S("Hoja1")>>, << << <<Cell(S("DNI"), Num(12))>> >> >>)]

FilePool == {FileA, FileB}

NoFile == [name |-> <<>>, read |-> Workbook(<<>>, <<>>)]

\* reader.onerror = () => reject(new Error('Error al leer el archivo.')).
readerOnerror == reject(S("Error al leer el archivo."))

\* The message of the error of a request that has failed (request.error), which
\* the engine words.
RequestErrorMessage == S("QuotaExceededError")

\* What the promise of parseFile(file) is settled with when the file is read.
parseFile(file, tz) ==
    IF extension(file.name) \in Supported THEN xlsxOnload(file.read, tz).settled
    ELSE reject(S("Tipo de archivo no soportado: .") \o extension(file.name))

AppSearchTerms == {<<>>, S("perez")}

SettingsPool ==
    { [dates |-> NoDates, unions |-> DefaultUnions],
      [dates |-> [submissionDate |-> S("2025-01-10"), votingDate |-> S("2025-02-20")],
       unions |-> <<S("CCOO")>>] }

\* An invocation of an async function that has not returned: its place, and the
\* values of the render it was called in.
Task(kind, pc, file, dates, unions) ==
    [kind |-> kind, pc |-> pc, file |-> file, dates |-> dates, unions |-> unions]

Without(seq, i) == SubSeq(seq, 1, i - 1) \o SubSeq(seq, i + 1, Len(seq))

\* The requests to the store are settled in the order they were made: tasks holds
\* an invocation that awaits the store after those whose requests were made
\* before.  A request that fails leaves the store as it was, and the invocation
\* awaits a promise that will be rejected.
AwaitsStore(i) ==
    tasks[i].pc \in {"loadState", "clearState", "saveState", "clearStateRejected",
                     "saveStateRejected"}

FirstOfStore(i) == AwaitsStore(i) /\ \A j \in 1..(i - 1) : ~AwaitsStore(j)

\* Whether a request to the store or a read of a file succeeds.
Outcomes == IF faulty THEN BOOLEAN ELSE {TRUE}

FilesInFlight == {i \in 1..Len(tasks) : tasks[i].kind = "file"}

\* A bug the debounce could have: the timer calls the saveDataToDB of the render
\* before the change.
DebounceOfPreviousRender ==
    timer' = [set |-> TRUE,
              closure |-> stateToSave(appHeaders, rowsOf(originalData), appCheckedState,
                                      electionDates, visibleUnions, appFileName)]

\* useEffect(..., [checkedState, electionDates, visibleUnions, saveDataToDB]): the
\* timer of the previous render is cleared and one is set for the saveDataToDB of
\* the new render.
Debounce ==
    timer' = [set |-> TRUE,
              closure |-> stateToSave(appHeaders', rowsOf(originalData'), appCheckedState',
                                      electionDates', visibleUnions', appFileName')]

\* A new originalData is committed: the index effect and the filter effect are due.
NewDataset(rows) ==
    /\ originalData' = Indexed(rows)
    /\ filteredData' = Indexed(rows)
    /\ renderedIndex' = searchableData
    /\ effects' = {"index", "filter"}
    /\ UNCHANGED searchableData

\* The component is mounted: the state of useState, the load effect has called
\* loadState, the debounce effect has set its first timer.
Mounted ==
    /\ view = "loading"
    /\ appHeaders = <<>>
    /\ appCheckedState = <<>>
    /\ appFileName = <<>>
    /\ electionDates = NoDates
    /\ visibleUnions = DefaultUnions
    /\ appError = NoError
    /\ tasks = <<Task("load", "loadState", NoFile, NoDates, DefaultUnions)>>
    /\ timer = [set |-> TRUE,
                closure |-> stateToSave(<<>>, <<>>, <<>>, NoDates, DefaultUnions, <<>>)]
    /\ latest = NoFile
    /\ overlapped = FALSE

AppInit ==
    /\ Mounted
    /\ SearchInit
    /\ db = NoRecord
    /\ appStep = "mount"
    /\ edits = 0
    /\ faulty = FALSE

\* The component is mounted where the store and the file reader can fail.
AppFaultyInit ==
    /\ Mounted
    /\ SearchInit
    /\ db = NoRecord
    /\ appStep = "mount"
    /\ edits = 0
    /\ faulty = TRUE

\* loadState().then(savedState => ...).
LoadEffectThen ==
    /\ effects = {}
    /\ \E i \in 1..Len(tasks) :
          /\ tasks[i].kind = "load" /\ FirstOfStore(i)
          /\ tasks' = Without(tasks, i)
    /\ IF loadState(db) # Null
       THEN LET savedState == loadState(db).value
            IN  /\ appHeaders' = savedState.headers
                /\ NewDataset(savedState.data)
                /\ appCheckedState' = savedState.checkedState
                /\ electionDates' = savedState.settings.dates
                /\ visibleUnions' = savedState.settings.unions
                /\ appFileName' = savedState.fileName
                /\ view' = "data"
                /\ Debounce
                /\ appStep' = "loaded"
       ELSE /\ view' = "upload"
            /\ appStep' = "nothingSaved"
            /\ UNCHANGED <<appHeaders, appCheckedState, electionDates, visibleUnions,
                           appFileName, timer, originalData, filteredData, searchableData,
                           renderedIndex, effects>>
    /\ UNCHANGED <<appError, db, searchTerm, latest, overlapped>>
    /\ UNCHANGED <<edits, faulty>>

\* loadState().then(...).catch(() => ...): the get request has failed.
LoadEffectCatch ==
    /\ effects = {}
    /\ faulty
    /\ UNCHANGED <<edits, faulty>>
    /\ \E i \in 1..Len(tasks) :
          /\ tasks[i].kind = "load" /\ FirstOfStore(i)
          /\ tasks' = Without(tasks, i)
    /\ appError' = Str(S("No se pudo cargar el estado guardado. Por favor, carga un archivo nuevo."))
    /\ view' = "upload"
    /\ appStep' = "loadFailed"
    /\ UNCHANGED <<appHeaders, appCheckedState, appFileName, electionDates, visibleUnions,
                   db, timer, latest, overlapped, searchVars>>

\* handleFileSelect(file), up to await clearState().
HandleFileSelect ==
    /\ view = "upload"
    /\ effects = {}
    /\ Len(tasks) < MaxTasks
    /\ \E file \in FilePool, cleared \in Outcomes :
          /\ tasks' = Append(tasks, Task("file",
                                         IF cleared THEN "clearState" ELSE "clearStateRejected",
                                         file, electionDates, visibleUnions))
          /\ latest' = file
          /\ db' = IF cleared THEN clearState ELSE db
    /\ UNCHANGED <<edits, faulty>>
    /\ overlapped' = (FilesInFlight # {})
    /\ view' = "loading"
    /\ appError' = NoError
    /\ appStep' = "fileSelect"
    /\ UNCHANGED <<appHeaders, appCheckedState, appFileName, electionDates, visibleUnions,
                   timer, searchVars>>

\* handleFileSelect after await clearState(): parseFile(file) is called.
FileSelectCleared ==
    /\ effects = {}
    /\ \E i \in 1..Len(tasks) :
          /\ tasks[i].kind = "file" /\ tasks[i].pc = "clearState" /\ FirstOfStore(i)
          /\ tasks' = [tasks EXCEPT ![i].pc = "parseFile"]
    /\ appStep' = "parsing"
    /\ UNCHANGED <<view, appHeaders, appCheckedState, appFileName, electionDates,
                   visibleUnions, appError, db, timer, latest, overlapped, searchVars>>
    /\ UNCHANGED <<edits, faulty>>

\* handleFileSelect after await parseFile(file), up to await saveState(initialState);
\* or its catch when the promise was rejected.
FileSelectParsed ==
    /\ effects = {}
    /\ UNCHANGED <<electionDates, visibleUnions, searchTerm, latest, overlapped, edits, faulty>>
    /\ \E i \in 1..Len(tasks) :
          /\ tasks[i].kind = "file" /\ tasks[i].pc = "parseFile"
          /\ \E read \in Outcomes :
             LET parsed == IF read THEN parseFile(tasks[i].file, tzOffset) ELSE readerOnerror
             IN  IF parsed.state = "resolved"
                 THEN /\ appHeaders' = parsed.headers
                      /\ NewDataset(parsed.data)
                      /\ appCheckedState' = <<>>
                      /\ appFileName' = tasks[i].file.name
                      /\ \E stored \in Outcomes :
                            /\ db' = IF stored
                                     THEN saveState(stateToSave(parsed.headers, parsed.data,
                                                                <<>>, tasks[i].dates,
                                                                tasks[i].unions,
                                                                tasks[i].file.name))
                                     ELSE db
                            /\ tasks' = Append(Without(tasks, i),
                                               [tasks[i] EXCEPT !.pc = IF stored THEN "saveState"
                                                                       ELSE "saveStateRejected"])
                      /\ Debounce
                      /\ appStep' = "parsed"
                      /\ UNCHANGED <<view, appError>>
                 ELSE /\ appError' = Str(parsed.message)
                      /\ view' = "upload"
                      /\ tasks' = Without(tasks, i)
                      /\ appStep' = "failed"
                      /\ UNCHANGED <<appHeaders, appCheckedState, appFileName, db, timer,
                                     originalData, filteredData, searchableData,
                                     renderedIndex, effects>>

\* handleFileSelect after await saveState(initialState).
FileSelectSaved ==
    /\ effects = {}
    /\ \E i \in 1..Len(tasks) :
          /\ tasks[i].kind = "file" /\ tasks[i].pc = "saveState" /\ FirstOfStore(i)
          /\ tasks' = Without(tasks, i)
    /\ view' = "data"
    /\ appStep' = "saved"
    /\ UNCHANGED <<appHeaders, appCheckedState, appFileName, electionDates, visibleUnions,
                   appError, db, timer, latest, overlapped, searchVars>>
    /\ UNCHANGED <<edits, faulty>>

\* A bug the catch block could have: the message is set, the view is not.
FileSelectCatchKeepsView ==
    /\ effects = {}
    /\ \E i \in 1..Len(tasks) :
          /\ tasks[i].kind = "file"
          /\ tasks[i].pc \in {"clearStateRejected", "saveStateRejected"}
          /\ FirstOfStore(i)
          /\ tasks' = Without(tasks, i)
          /\ appError' = Str(IF tasks[i].pc = "clearStateRejected"
                             THEN S("Ocurrió un error desconocido.")
                             ELSE RequestErrorMessage)
    /\ appStep' = "failed"
    /\ UNCHANGED <<view, appHeaders, appCheckedState, appFileName, electionDates,
                   visibleUnions, db, timer, latest, overlapped, searchVars>>
    /\ UNCHANGED <<edits, faulty>>

\* handleFileSelect: the catch block, when clearState or saveState has rejected.
\* clearState rejects with a string, saveState with request.error.
FileSelectCatch ==
    /\ effects = {}
    /\ \E i \in 1..Len(tasks) :
          /\ tasks[i].kind = "file"
          /\ tasks[i].pc \in {"clearStateRejected", "saveStateRejected"}
          /\ FirstOfStore(i)
          /\ tasks' = Without(tasks, i)
          /\ appError' = Str(IF tasks[i].pc = "clearStateRejected"
                             THEN S("Ocurrió un error desconocido.")
                             ELSE RequestErrorMessage)
    /\ view' = "upload"
    /\ appStep' = "failed"
    /\ UNCHANGED <<appHeaders, appCheckedState, appFileName, electionDates, visibleUnions,
                   db, timer, latest, overlapped, searchVars>>
    /\ UNCHANGED <<edits, faulty>>

\* handleCheckboxChange(originalIndex, union, e.target.checked) from a checkbox of
\* the table.
HandleCheckboxChange ==
    /\ view = "data"
    /\ effects = {}
    /\ edits < MaxEdits
    /\ edits' = edits + 1
    /\ UNCHANGED faulty
    /\ \E position \in 1..Len(filteredData), union \in Range(visibleUnions) :
          LET rowIndex == rowIndexOf(filteredData, position)
          IN  appCheckedState' = withChecked(appCheckedState, rowIndex, union,
                                             ~shownChecked(appCheckedState, rowIndex, union))
    /\ searchTerm' = <<>>
    /\ IF searchTerm # <<>>
       THEN renderedIndex' = searchableData /\ effects' = {"filter"}
       ELSE UNCHANGED <<renderedIndex, effects>>
    /\ appStep' = "checkbox"
    /\ UNCHANGED <<view, appHeaders, appFileName, electionDates, visibleUnions, appError,
                   db, tasks, latest, overlapped, originalData, searchableData, filteredData>>
    /\ Debounce

\* handleSaveSettings(settings): saveDataToDB is the one of the current render.
HandleSaveSettings ==
    /\ view = "data"
    /\ effects = {}
    /\ edits < MaxEdits
    /\ edits' = edits + 1
    /\ UNCHANGED faulty
    /\ \E settings \in SettingsPool :
          /\ electionDates' = settings.dates
          /\ visibleUnions' = settings.unions
    /\ db' = saveDataToDB(stateToSave(appHeaders, rowsOf(originalData), appCheckedState,
                                      electionDates, visibleUnions, appFileName), db)
    /\ appStep' = "settings"
    /\ UNCHANGED <<view, appHeaders, appCheckedState, appFileName, appError, tasks, latest,
                   overlapped, searchVars>>
    /\ Debounce

\* handleSearchChange(e).
HandleSearchChange ==
    /\ view = "data"
    /\ effects = {}
    /\ edits < MaxEdits
    /\ edits' = edits + 1
    /\ UNCHANGED faulty
    /\ \E term \in AppSearchTerms :
          /\ term # searchTerm
          /\ searchTerm' = term
    /\ renderedIndex' = searchableData
    /\ effects' = {"filter"}
    /\ appStep' = "search"
    /\ UNCHANGED <<view, appHeaders, appCheckedState, appFileName, electionDates,
                   visibleUnions, appError, db, tasks, timer, latest, overlapped,
                   originalData, searchableData, filteredData>>

\* handleClearAndUpload(), up to await clearState().
HandleClearAndUpload ==
    /\ view = "data"
    /\ effects = {}
    /\ Len(tasks) < MaxTasks
    /\ \E cleared \in Outcomes :
          /\ tasks' = Append(tasks, Task("clear",
                                         IF cleared THEN "clearState" ELSE "clearStateRejected",
                                         NoFile, NoDates, DefaultUnions))
          /\ db' = IF cleared THEN clearState ELSE db
    /\ UNCHANGED <<edits, faulty>>
    /\ appStep' = "clear"
    /\ UNCHANGED <<view, appHeaders, appCheckedState, appFileName, electionDates,
                   visibleUnions, appError, timer, latest, overlapped, searchVars>>

\* handleClearAndUpload after await clearState().
ClearAndUploadCleared ==
    /\ effects = {}
    /\ \E i \in 1..Len(tasks) :
          /\ tasks[i].kind = "clear" /\ tasks[i].pc = "clearState" /\ FirstOfStore(i)
          /\ tasks' = Without(tasks, i)
    /\ appHeaders' = <<>>
    /\ NewDataset(<<>>)
    /\ appCheckedState' = <<>>
    /\ appFileName' = <<>>
    /\ searchTerm' = <<>>
    /\ appError' = NoError
    /\ view' = "upload"
    /\ appStep' = "cleared"
    /\ UNCHANGED <<electionDates, visibleUnions, db, latest, overlapped>>
    /\ Debounce
    /\ UNCHANGED <<edits, faulty>>

\* handleClearAndUpload when clearState has rejected: the function ends at the
\* await, nothing catches the rejection.
ClearAndUploadRejected ==
    /\ effects = {}
    /\ \E i \in 1..Len(tasks) :
          /\ tasks[i].kind = "clear" /\ tasks[i].pc = "clearStateRejected" /\ FirstOfStore(i)
          /\ tasks' = Without(tasks, i)
    /\ appStep' = "clearFailed"
    /\ UNCHANGED <<view, appHeaders, appCheckedState, appFileName, electionDates,
                   visibleUnions, appError, db, timer, latest, overlapped, searchVars>>
    /\ UNCHANGED <<edits, faulty>>

\* The timer of the debounce effect fires: saveDataToDB() of its render.
DebouncedSave ==
    /\ effects = {}
    /\ timer.set
    /\ db' = saveDataToDB(timer.closure, db)
    /\ timer' = [timer EXCEPT !.set = FALSE]
    /\ appStep' = "timer"
    /\ UNCHANGED <<view, appHeaders, appCheckedState, appFileName, electionDates,
                   visibleUnions, appError, tasks, latest, overlapped, searchVars>>
    /\ UNCHANGED <<edits, faulty>>

\* The page is loaded again: the component is mounted anew, the store is kept.
Reload ==
    /\ appStep # "mount"
    /\ view' = "loading"
    /\ appHeaders' = <<>>
    /\ appCheckedState' = <<>>
    /\ appFileName' = <<>>
    /\ electionDates' = NoDates
    /\ visibleUnions' = DefaultUnions
    /\ appError' = NoError
    /\ tasks' = <<Task("load", "loadState", NoFile, NoDates, DefaultUnions)>>
    /\ timer' = [set |-> TRUE,
                 closure |-> stateToSave(<<>>, <<>>, <<>>, NoDates, DefaultUnions, <<>>)]
    /\ latest' = NoFile
    /\ overlapped' = FALSE
    /\ originalData' = <<>>
    /\ searchTerm' = <<>>
    /\ searchableData' = <<>>
    /\ filteredData' = <<>>
    /\ renderedIndex' = <<>>
    /\ effects' = {"index", "filter"}
    /\ appStep' = "mount"
    /\ UNCHANGED <<db, edits, faulty>>

AppIndexEffect ==
    /\ IndexEffect
    /\ appStep' = "index"
    /\ UNCHANGED <<view, appHeaders, appCheckedState, appFileName, electionDates,
                   visibleUnions, appError, db, tasks, timer, latest, overlapped>>
    /\ UNCHANGED <<edits, faulty>>

AppFilterEffect ==
    /\ FilterEffect
    /\ appStep' = "filter"
    /\ UNCHANGED <<view, appHeaders, appCheckedState, appFileName, electionDates,
                   visibleUnions, appError, db, tasks, timer, latest, overlapped>>
    /\ UNCHANGED <<edits, faulty>>

(***************************************************************************)
(* Properties of App.                                                      *)
(***************************************************************************)
\* Position i of originalData holds originalIndex i, and every entry shown is the
\* entry of originalData with its originalIndex.
IndexStable ==
    /\ \A i \in 1..Len(originalData) : originalData[i].originalIndex = i - 1
    /\ \A p \in 1..Len(filteredData) :
          /\ filteredData[p].originalIndex < Len(originalData)
          /\ originalData[filteredData[p].originalIndex + 1] = filteredData[p]

\* The row indices whose marks a step changes.
ChangedKeys ==
    {k \in DOMAIN appCheckedState \cup DOMAIN appCheckedState' :
        \/ k \notin DOMAIN appCheckedState
        \/ k \notin DOMAIN appCheckedState'
        \/ appCheckedState[k] # appCheckedState'[k]}

\* C11: in every state of App position i of originalData holds originalIndex i
\* and every entry of filteredData is the entry of originalData with the same
\* originalIndex; a search, filter, index, checkbox, settings or save step
\* leaves originalData as it is; a checkbox step changes the marks of exactly
\* one key, the originalIndex of a row shown.
C11_RowIndexStability ==
    /\ []IndexStable
    /\ [][/\ appStep' \in {"search", "filter", "index", "checkbox", "settings", "timer"}
                => originalData' = originalData
          /\ appStep' = "checkbox"
                => \E p \in 1..Len(filteredData) :
                       ChangedKeys = {filteredData[p].originalIndex}]_vars

\* The search shows the second row only, at position 0, and its checkbox has
\* marked key 1.
C11_Witness ==
    /\ appStep = "checkbox"
    /\ Len(originalData) = 2
    /\ Len(filteredData) = 1
    /\ filteredData[1].originalIndex = 1
    /\ DOMAIN appCheckedState = {1}

\* C14: when handleFileSelect was called for a file while a call for another
\* file was in flight, then once both have finished the headers, rows and file
\* name in memory are those of the later file, the marks are marks of its rows,
\* and the snapshot stored is a snapshot of it.
C14_InFlightIsolation ==
    (/\ appStep \in {"saved", "failed"}
     /\ overlapped
     /\ FilesInFlight = {}
     /\ parseFile(latest, tzOffset).state = "resolved") =>
        /\ appHeaders = parseFile(latest, tzOffset).headers
        /\ originalData = Indexed(parseFile(latest, tzOffset).data)
        /\ appFileName = latest.name
        /\ DOMAIN appCheckedState \subseteq 0..(Len(parseFile(latest, tzOffset).data) - 1)
        /\ db.present =>
              /\ db.value.headers = parseFile(latest, tzOffset).headers
              /\ db.value.data = parseFile(latest, tzOffset).data
              /\ db.value.fileName = latest.name

\* The state restored is the snapshot in the store, row i with originalIndex i.
Restored ==
    appStep = "loaded" =>
        /\ db.present
        /\ appHeaders = db.value.headers
        /\ Len(originalData) = Len(db.value.data)
        /\ \A i \in 1..Len(originalData) :
              originalData[i] = [row |-> db.value.data[i], originalIndex |-> i - 1]
        /\ appCheckedState = db.value.checkedState
        /\ electionDates = db.value.settings.dates
        /\ visibleUnions = db.value.settings.unions
        /\ appFileName = db.value.fileName

\* A snapshot is stored: each key of its checkedState is the originalIndex of a
\* row in memory, the snapshot has this row at the position of the key, and the
\* marks of the key are the marks in memory.
StoredAsInMemory ==
    (db' # db /\ db'.present) =>
        /\ db'.value.headers = appHeaders'
        /\ db'.value.fileName = appFileName'
        /\ Len(db'.value.data) = Len(originalData')
        /\ DOMAIN db'.value.checkedState = DOMAIN appCheckedState'
        /\ \A k \in DOMAIN db'.value.checkedState :
              /\ k + 1 \in 1..Len(db'.value.data)
              /\ \E i \in 1..Len(originalData') :
                    /\ originalData'[i].originalIndex = k
                    /\ originalData'[i].row = db'.value.data[k + 1]
              /\ db'.value.checkedState[k] = appCheckedState'[k]

\* C15: what saveState stores is the state in memory with the rows in the order
\* of their originalIndex, and loading the stored snapshot restores its headers,
\* rows, checkedState, election dates, visible unions and file name, row i with
\* originalIndex i: a key of checkedState designates the same row after the
\* reload as before the save.
C15_PersistenceRoundTrip == []Restored /\ [][StoredAsInMemory]_vars

\* A snapshot of two rows with a mark on the second has been restored.
C15_Witness ==
    /\ appStep = "loaded"
    /\ Len(originalData) = 2
    /\ 1 \in DOMAIN appCheckedState
    /\ electionDates # NoDates

\* C25: once no effect is pending, searchableData has one entry per row of the
\* current originalData, with the originalIndex of the row and the normalized
\* concatenation of its values, and filteredData is the subsequence of the rows
\* of originalData that contain every term of the current search term.
C25_IndexFreshness ==
    effects = {} =>
        /\ Len(searchableData) = Len(originalData)
        /\ \A i \in 1..Len(originalData) :
              /\ searchableData[i].originalIndex = originalData[i].originalIndex
              /\ searchableData[i].searchableString = Concatenation(originalData[i].row)
        /\ filteredData =
              Pick(originalData,
                   {i \in 1..Len(originalData) :
                       \A term \in TermSet(searchTerm) :
                           Contains(Concatenation(originalData[i].row), term)})

\* The rows of a file that was parsed while another dataset was searched have
\* replaced it, and the view has settled on the new rows.
C25_Witness ==
    /\ effects = {}
    /\ appStep = "filter"
    /\ overlapped
    /\ searchTerm = S("perez")
    /\ appFileName = S("censo.xlsx")
    /\ Len(filteredData) = 1
    /\ filteredData[1].originalIndex = 1

\* The selection of a row and a union in a checkedState: its value, or that the
\* checkedState has none.
SelectionAt(cs, rowIndex, union) ==
    IF rowIndex \in DOMAIN cs /\ union \in DOMAIN cs[rowIndex]
    THEN IF cs[rowIndex][union] THEN "checked" ELSE "unchecked"
    ELSE "none"

\* The (row, union) pairs that have a selection before or after a step.
SelectionPairs ==
    {<<k, u>> : k \in DOMAIN appCheckedState \cup DOMAIN appCheckedState',
                u \in UNION ({DOMAIN appCheckedState[k] : k \in DOMAIN appCheckedState}
                             \cup {DOMAIN appCheckedState'[k] : k \in DOMAIN appCheckedState'})}

\* C26: a step of handleCheckboxChange sets the selection of one row and one
\* union, the opposite of what its checkbox showed, and leaves every other
\* selection, the rows, the headers, the visible unions and the election dates
\* as they were.
C26_CheckboxFrame ==
    [][appStep' = "checkbox" =>
          /\ \E p \in 1..Len(filteredData), union \in Range(visibleUnions) :
                LET rowIndex == filteredData[p].originalIndex
                IN  /\ SelectionAt(appCheckedState', rowIndex, union) =
                          (IF SelectionAt(appCheckedState, rowIndex, union) = "checked"
                           THEN "unchecked" ELSE "checked")
                    /\ \A pair \in SelectionPairs \ {<<rowIndex, union>>} :
                          SelectionAt(appCheckedState', pair[1], pair[2]) =
                              SelectionAt(appCheckedState, pair[1], pair[2])
          /\ originalData' = originalData
          /\ appHeaders' = appHeaders
          /\ visibleUnions' = visibleUnions
          /\ electionDates' = electionDates]_vars

\* The first row was marked for CCOO and then for UGT, and has both marks.
C26_Witness ==
    /\ appStep = "checkbox"
    /\ SelectionAt(appCheckedState, 0, S("CCOO")) = "checked"
    /\ SelectionAt(appCheckedState, 0, S("UGT")) = "checked"

\* A dataset is loaded: what saveDataToDB requires to store.
DatasetLoaded == Len(appHeaders) > 0 /\ Len(originalData) > 0

\* The snapshot has the checkedState, the election dates, the visible unions,
\* the rows and the file name that are in memory.
SnapshotAsMemory(snapshot) ==
    /\ snapshot.checkedState = appCheckedState
    /\ snapshot.settings.dates = electionDates
    /\ snapshot.settings.unions = visibleUnions
    /\ snapshot.data = [i \in 1..Len(originalData) |-> originalData[i].row]
    /\ snapshot.fileName = appFileName

\* C27: while a dataset is loaded, the save of the timer that a checkbox change
\* or a settings save has set stores the state of its render, which is the state
\* in memory: after the timer has fired the stored snapshot has the checkedState,
\* election dates, visible unions, rows and file name in memory; and after a
\* checkbox change or a settings save, whose own write is of the previous
\* render, this timer is pending, so that the write of the handler is not the
\* last.
C27_PersistenceCatchesUp ==
    DatasetLoaded =>
        /\ appStep = "timer" => (db.present /\ SnapshotAsMemory(db.value))
        /\ appStep \in {"checkbox", "settings"} =>
              (timer.set /\ SnapshotAsMemory(timer.closure))

\* The timer has fired after a mark and a change of settings; the write of
\* handleSaveSettings was of the settings before the change.
C27_Witness ==
    /\ appStep = "timer"
    /\ DatasetLoaded
    /\ appCheckedState # <<>>
    /\ electionDates # NoDates
    /\ db.value.settings.dates = electionDates

\* C28: when handleClearAndUpload has completed, which has replaced the timer
\* that was pending by one of the empty state, and no import is in flight, the
\* store holds no snapshot: loadState gives null.
C28_ClearIsFinal ==
    (appStep = "cleared" /\ FilesInFlight = {}) => loadState(db) = Null

\* C29: when a handleFileSelect has ended in success, the checkedState in memory
\* is empty and the stored snapshot has the rows of the new file, which are the
\* rows in memory, and an empty checkedState; and whenever the view is 'upload',
\* the headers, originalData and checkedState in memory are empty.
C29_SelectionsWithDataset ==
    /\ appStep = "saved" =>
          /\ appCheckedState = <<>>
          /\ db.present
          /\ db.value.data = [i \in 1..Len(originalData) |-> originalData[i].row]
          /\ db.value.checkedState = <<>>
    /\ view = "upload" =>
          /\ appHeaders = <<>>
          /\ originalData = <<>>
          /\ appCheckedState = <<>>

\* The outcome of the load effect and of handleFileSelect: the view, and the
\* error message after a failure.
EndsInView ==
    /\ appStep \in {"loaded", "saved"} => view = "data"
    /\ appStep = "nothingSaved" => view = "upload"
    /\ appStep \in {"loadFailed", "failed"} => (view = "upload" /\ appError # NoError)

\* C30: the load effect ends in view 'data' when a snapshot is found and in view
\* 'upload' when none is found or the load fails; a handleFileSelect ends in view
\* 'data' when clearState, parseFile and saveState succeed and in view 'upload'
\* with an error message when one of them fails; and unless the page is loaded
\* again and again, a 'loading' view is followed by another view.
C30_LoadingIsLeft ==
    /\ []EndsInView
    /\ <>[](appStep # "mount") => ((view = "loading") ~> (view # "loading"))

\* The file was parsed, saveState has failed, and the catch block has shown the
\* upload view with the message of the error.
C30_Witness ==
    /\ appStep = "failed"
    /\ view = "upload"
    /\ appError = Str(RequestErrorMessage)
    /\ Len(originalData) > 0

AppIdle ==
    /\ view = "loading"
    /\ appHeaders = <<>>
    /\ appCheckedState = <<>>
    /\ appFileName = <<>>
    /\ electionDates = NoDates
    /\ visibleUnions = DefaultUnions
    /\ appError = NoError
    /\ db = NoRecord
    /\ tasks = <<>>
    /\ timer = [set |-> FALSE, closure |-> stateToSave(<<>>, <<>>, <<>>, NoDates, DefaultUnions, <<>>)]
    /\ appStep = "idle"
    /\ latest = NoFile
    /\ overlapped = FALSE
    /\ edits = 0
    /\ faulty = FALSE

(***************************************************************************)
(* Specifications: one per component, the other components idle.           *)
(***************************************************************************)
InitDup ==
    /\ DupInit
    /\ tzOffset = 0
    /\ DateIdle
    /\ ParseIdle
    /\ SearchIdle
    /\ IdentityIdle
    /\ AppIdle

OutsideDup == <<tzOffset, dateVars, parseVars, searchVars, identityVars, appVars>>

DupNext == ComputeDuplicates /\ UNCHANGED OutsideDup

SpecDup == InitDup /\ [][DupNext]_vars

InitDate ==
    /\ DateInit
    /\ tzOffset \in TimeZoneOffsets
    /\ DupIdle
    /\ ParseIdle
    /\ SearchIdle
    /\ IdentityIdle
    /\ AppIdle

OutsideDate == <<tzOffset, dupVars, parseVars, searchVars, identityVars, appVars>>

DateNext ==
    \/ ProcessDates /\ UNCHANGED OutsideDate
    \/ ProcessDatesAgain /\ UNCHANGED OutsideDate

SpecDate == InitDate /\ [][DateNext]_vars

InitParse ==
    /\ ParseInit
    /\ tzOffset \in TimeZoneOffsets
    /\ DupIdle
    /\ DateIdle
    /\ SearchIdle
    /\ IdentityIdle
    /\ AppIdle

OutsideParse == <<tzOffset, dupVars, dateVars, searchVars, identityVars, appVars>>

ParseNext ==
    \/ ParseFile /\ UNCHANGED OutsideParse
    \/ PapaComplete /\ UNCHANGED OutsideParse
    \/ PapaError /\ UNCHANGED OutsideParse
    \/ JsonOnload /\ UNCHANGED OutsideParse
    \/ XlsxOnload /\ UNCHANGED OutsideParse
    \/ ReaderOnerror /\ UNCHANGED OutsideParse

SpecParse == InitParse /\ [][ParseNext]_vars

InitSearch ==
    /\ SearchInit
    /\ tzOffset = 0
    /\ DupIdle
    /\ DateIdle
    /\ ParseIdle
    /\ IdentityIdle
    /\ AppIdle

OutsideSearch == <<tzOffset, dupVars, dateVars, parseVars, identityVars, appVars>>

SearchNext ==
    \/ SetOriginalData /\ UNCHANGED OutsideSearch
    \/ SetSearchTerm /\ UNCHANGED OutsideSearch
    \/ IndexEffect /\ UNCHANGED OutsideSearch
    \/ FilterEffect /\ UNCHANGED OutsideSearch

SpecSearch == InitSearch /\ [][SearchNext]_vars

InitIdentity ==
    /\ IdentityInit
    /\ tzOffset = 0
    /\ DupIdle
    /\ DateIdle
    /\ ParseIdle
    /\ SearchIdle
    /\ AppIdle

OutsideIdentity == <<tzOffset, dupVars, dateVars, parseVars, searchVars, appVars>>

IdentityNext ==
    \/ ReportIdentifies /\ UNCHANGED OutsideIdentity
    \/ TableIdentifies /\ UNCHANGED OutsideIdentity

SpecIdentity == InitIdentity /\ [][IdentityNext]_vars

InitApp ==
    /\ AppInit
    /\ tzOffset = 0
    /\ DupIdle
    /\ DateIdle
    /\ ParseIdle
    /\ IdentityIdle

OutsideApp == <<tzOffset, dupVars, dateVars, parseVars, identityVars>>

AppNext ==
    \/ LoadEffectThen /\ UNCHANGED OutsideApp
    \/ HandleFileSelect /\ UNCHANGED OutsideApp
    \/ FileSelectCleared /\ UNCHANGED OutsideApp
    \/ FileSelectParsed /\ UNCHANGED OutsideApp
    \/ FileSelectSaved /\ UNCHANGED OutsideApp
    \/ HandleCheckboxChange /\ UNCHANGED OutsideApp
    \/ HandleSaveSettings /\ UNCHANGED OutsideApp
    \/ HandleSearchChange /\ UNCHANGED OutsideApp
    \/ HandleClearAndUpload /\ UNCHANGED OutsideApp
    \/ ClearAndUploadCleared /\ UNCHANGED OutsideApp
    \/ DebouncedSave /\ UNCHANGED OutsideApp
    \/ Reload /\ UNCHANGED OutsideApp
    \/ AppIndexEffect /\ UNCHANGED OutsideApp
    \/ AppFilterEffect /\ UNCHANGED OutsideApp

SpecApp == InitApp /\ [][AppNext]_vars

InitAppFaulty ==
    /\ AppFaultyInit
    /\ tzOffset = 0
    /\ DupIdle
    /\ DateIdle
    /\ ParseIdle
    /\ IdentityIdle

OutsideAppFaulty == <<tzOffset, dupVars, dateVars, parseVars, identityVars>>

AppFaultyNext ==
    \/ LoadEffectThen /\ UNCHANGED OutsideAppFaulty
    \/ LoadEffectCatch /\ UNCHANGED OutsideAppFaulty
    \/ HandleFileSelect /\ UNCHANGED OutsideAppFaulty
    \/ FileSelectCleared /\ UNCHANGED OutsideAppFaulty
    \/ FileSelectParsed /\ UNCHANGED OutsideAppFaulty
    \/ FileSelectSaved /\ UNCHANGED OutsideAppFaulty
    \/ FileSelectCatch /\ UNCHANGED OutsideAppFaulty
    \/ HandleClearAndUpload /\ UNCHANGED OutsideAppFaulty
    \/ ClearAndUploadCleared /\ UNCHANGED OutsideAppFaulty
    \/ ClearAndUploadRejected /\ UNCHANGED OutsideAppFaulty
    \/ DebouncedSave /\ UNCHANGED OutsideAppFaulty
    \/ Reload /\ UNCHANGED OutsideAppFaulty
    \/ AppIndexEffect /\ UNCHANGED OutsideAppFaulty
    \/ AppFilterEffect /\ UNCHANGED OutsideAppFaulty

\* The steps that need no user: a request to the store is settled, a file read
\* ends with onload or onerror, and the continuation of a settled promise or a
\* due effect is run.  While one of them is possible, one of them is taken.
AppFaultyContinues ==
    \/ LoadEffectThen /\ UNCHANGED OutsideAppFaulty
    \/ LoadEffectCatch /\ UNCHANGED OutsideAppFaulty
    \/ FileSelectCleared /\ UNCHANGED OutsideAppFaulty
    \/ FileSelectParsed /\ UNCHANGED OutsideAppFaulty
    \/ FileSelectSaved /\ UNCHANGED OutsideAppFaulty
    \/ FileSelectCatch /\ UNCHANGED OutsideAppFaulty
    \/ ClearAndUploadCleared /\ UNCHANGED OutsideAppFaulty
    \/ ClearAndUploadRejected /\ UNCHANGED OutsideAppFaulty
    \/ AppIndexEffect /\ UNCHANGED OutsideAppFaulty
    \/ AppFilterEffect /\ UNCHANGED OutsideAppFaulty

SpecAppFaulty == InitAppFaulty /\ [][AppFaultyNext]_vars /\ WF_vars(AppFaultyContinues)

=============================================================================
